---- MODULE Spec2Model ----
(***************************************************************************)
(* A model of the Game Boy emulator core: the flat RAM, the register file, *)
(* the CPU engine (decode, execute, step, interrupt dispatch) and the PPU  *)
(* engine (mode machine, scanline renderer, gated video memory).          *)
(*                                                                         *)
(* Byte arrays (RAM.memory, GPU.vram, GPU.oam, GPU.screen_buffer) are      *)
(* represented by the finite map of their nonzero bytes: every array is    *)
(* created zero-filled, so an index outside the map's domain holds 0.      *)
(* A Rust panic (index out of bounds, failed assert!, panic!, arithmetic   *)
(* overflow in a build with overflow checks) aborts the process: it sets   *)
(* panicked and no operation runs afterwards.                              *)
(***************************************************************************)
EXTENDS Integers, Sequences, FiniteSets, TLC

VARIABLES
    ram,                     \* RAM.memory
    registers,               \* CPU.registers (a, b, c, d, e, f, h, l, sp, pc)
    interrupt_master_enable, \* CPU.interrupt_master_enable
    previous_ime,            \* CPU.previous_ime
    clock_cycles,            \* CPU.clock_cycles
    vram,                    \* GPU.vram
    oam,                     \* GPU.oam
    clock,                   \* GPU.clock
    mode,                    \* GPU.mode
    current_scanline,        \* GPU.current_scanline
    screen_buffer,           \* GPU.screen_buffer
    panicked,                \* the process has aborted with a panic
    overflow_checks,         \* build profile: TRUE = arithmetic overflow panics (debug), FALSE = wraps (release)
    steps,                   \* number of driver operations performed so far
    timer,                   \* Timer (div, tima, tma, tac, clock_cycles, internal_div, internal_tima)
    last_op                  \* the last operation the driver performed, with its inputs and result

vars == <<ram, registers, interrupt_master_enable, previous_ime, clock_cycles,
          vram, oam, clock, mode, current_scanline, screen_buffer,
          panicked, overflow_checks, steps, timer, last_op>>

-----------------------------------------------------------------------------
(* Bit arithmetic on naturals, as Rust's &, |, ^ on unsigned integers.     *)

RECURSIVE BitAnd(_, _)
BitAnd(x, y) ==
    IF x = 0 \/ y = 0 THEN 0
    ELSE (x % 2) * (y % 2) + 2 * BitAnd(x \div 2, y \div 2)

RECURSIVE BitOr(_, _)
BitOr(x, y) ==
    IF x = 0 THEN y
    ELSE IF y = 0 THEN x
    ELSE (IF x % 2 = 1 \/ y % 2 = 1 THEN 1 ELSE 0) + 2 * BitOr(x \div 2, y \div 2)

RECURSIVE BitXor(_, _)
BitXor(x, y) ==
    IF x = 0 THEN y
    ELSE IF y = 0 THEN x
    ELSE ((x + y) % 2) + 2 * BitXor(x \div 2, y \div 2)

\* bit i of x
Bit(x, i) == (x \div (2 ^ i)) % 2

\* `b as i8`: the byte reinterpreted as a signed 8-bit value
as_i8(b) == IF b >= 128 THEN b - 256 ELSE b

\* `(v as i16) as u16`: a signed 8-bit value sign-extended to 16 bits
as_u16(v) == IF v < 0 THEN v + 65536 ELSE v

U8_MAX == 255
U16_MAX == 65535

\* an arithmetic result r of an unsigned type with maximum max overflows
Overflows(r, max) == r < 0 \/ r > max

\* the wrapped value a release build computes
Wrap(r, max) == r % (max + 1)

-----------------------------------------------------------------------------
(* Zero-filled byte arrays as finite maps of their nonzero bytes.          *)

EmptyArray == [i \in {} |-> 0]

Load(arr, i) == IF i \in DOMAIN arr THEN arr[i] ELSE 0

Store(arr, i, v) ==
    IF v = 0
    THEN [j \in DOMAIN arr \ {i} |-> arr[j]]
    ELSE [j \in DOMAIN arr \cup {i} |-> IF j = i THEN v ELSE arr[j]]

-----------------------------------------------------------------------------
(* ram.rs                                                                  *)

INTERRUPT_ENABLE_ADDRESS == 65535
INTERRUPT_FLAGS_ADDRESS == 65295

\* the length of RAM.memory: [u8; 0xFFFF]
RAM_SIZE == 65535

\* RAM::new
RAM_new == EmptyArray

\* self.memory[address as usize] panics when the index is not below the length
RamPanics(address) == address >= RAM_SIZE

\* RAM::read, for an index in bounds
read(memory, address) == Load(memory, address)

\* RAM::write, for an index in bounds
write(memory, address, value) == Store(memory, address, value)

-----------------------------------------------------------------------------
(* register.rs                                                             *)

\* FlagMasks
ZERO == 128
SUBTRACT == 64
HALF_CARRY == 32
CARRY == 16

\* Flags::to_u8
to_u8(flags) ==
      (IF flags.zero THEN ZERO ELSE 0)
    + (IF flags.subtract THEN SUBTRACT ELSE 0)
    + (IF flags.half_carry THEN HALF_CARRY ELSE 0)
    + (IF flags.carry THEN CARRY ELSE 0)

\* Flags::from_u8
from_u8(value) ==
    [zero       |-> BitAnd(value, ZERO) # 0,
     subtract   |-> BitAnd(value, SUBTRACT) # 0,
     half_carry |-> BitAnd(value, HALF_CARRY) # 0,
     carry      |-> BitAnd(value, CARRY) # 0]

\* Registers::new
Registers_new ==
    [a |-> 0, b |-> 0, c |-> 0, d |-> 0, e |-> 0, f |-> 0, h |-> 0, l |-> 0,
     sp |-> 0, pc |-> 0]

\* get_set_u16!: the getter of a register pair, high byte first
get_u16(regs, reg1, reg2) == regs[reg1] * 256 + regs[reg2]

\* get_set_u16!: the setter of a register pair
set_u16(regs, reg1, reg2, val) ==
    [regs EXCEPT ![reg1] = BitAnd(val, 65280) \div 256, ![reg2] = BitAnd(val, 255)]

\* Registers::set_f
set_f(regs, value) == [regs EXCEPT !.f = to_u8(from_u8(value))]

-----------------------------------------------------------------------------
(* gpu.rs: constants, the Mode enum and the register conversions           *)

VRAM_SIZE == 8192
VRAM_ADDRESS == 32768
OAM_SIZE == 160
OAM_ADDRESS == 65024
LCDC_ADDRESS == 65344
LY_ADDRESS == 65348
LYC_ADDRESS == 65349
LCD_STATUS_ADDRESS == 65345
CYCLES_OAM == 80
CYCLES_VRAM == 172
CYCLES_HBLANK == 204
CYCLES_VBLANK == 4560
SCANLINES_DISPLAY == 144
MAX_SCANLINES == 154
SCANLINE_SIZE == 160

\* enum Mode
Mode == {"HBLANK", "VBLANK", "OAM", "VRAM"}

\* `mode as u8`
mode_as_u8(m) ==
    CASE m = "HBLANK" -> 0
      [] m = "VBLANK" -> 1
      [] m = "OAM" -> 2
      [] m = "VRAM" -> 3

\* From<u8> for LCDC_REG
LCDC_REG_from(value) ==
    [bg_enable                      |-> BitAnd(value, 1) # 0,
     obj_enable                     |-> BitAnd(value, 2) # 0,
     obj_size                       |-> BitAnd(value, 4) # 0,
     bg_tile_map_display_select     |-> BitAnd(value, 8) # 0,
     bg_tile_data_select            |-> BitAnd(value, 16) # 0,
     window_enable                  |-> BitAnd(value, 32) # 0,
     window_tile_map_display_select |-> BitAnd(value, 64) # 0]

\* From<u8> for LCD_STATUS_REG
LCD_STATUS_REG_from(value) ==
    [mode           |-> CASE BitAnd(value, 3) = 0 -> "HBLANK"
                          [] BitAnd(value, 3) = 1 -> "VBLANK"
                          [] BitAnd(value, 3) = 2 -> "OAM"
                          [] BitAnd(value, 3) = 3 -> "VRAM",
     ly_compare     |-> BitAnd(value, 4) # 0,
     mode_0_set     |-> BitAnd(value, 8) # 0,
     mode_1_set     |-> BitAnd(value, 16) # 0,
     mode_2_set     |-> BitAnd(value, 32) # 0,
     lyc_int_select |-> BitAnd(value, 64) # 0,
     empty_1        |-> FALSE]

\* From<LCD_STATUS_REG> for u8
LCD_STATUS_REG_into(status) ==
      mode_as_u8(status.mode)
    + (IF status.ly_compare THEN 4 ELSE 0)
    + (IF status.mode_0_set THEN 8 ELSE 0)
    + (IF status.mode_1_set THEN 16 ELSE 0)
    + (IF status.mode_2_set THEN 32 ELSE 0)
    + (IF status.lyc_int_select THEN 64 ELSE 0)

\* the length of GPU.screen_buffer: SCANLINE_SIZE * SCANLINES_DISPLAY * 4
SCREEN_BUFFER_LEN == SCANLINE_SIZE * SCANLINES_DISPLAY * 4

(* A GPU value g is the record of GPU's fields and of the RAM it borrows,  *)
(* with the process's panicked flag and the build's overflow_checks.       *)

\* GPU::new
GPU_new(ram_in, checks) ==
    [ram |-> write(ram_in, LCD_STATUS_ADDRESS,
                   LCD_STATUS_REG_into([mode |-> "OAM", ly_compare |-> FALSE,
                                        mode_0_set |-> FALSE, mode_1_set |-> FALSE,
                                        mode_2_set |-> FALSE, lyc_int_select |-> FALSE,
                                        empty_1 |-> FALSE])),
     vram |-> EmptyArray,
     oam |-> EmptyArray,
     clock |-> 0,
     mode |-> "OAM",
     current_scanline |-> 0,
     screen_buffer |-> EmptyArray,
     panicked |-> FALSE,
     overflow_checks |-> checks]

\* a mode test that blocks OAM-search only
Accessible_not_oam(g) == g.mode # "OAM"

\* the mode test of read_vram, write_vram, read_oam and write_oam
Accessible(g) == g.mode = "HBLANK" \/ g.mode = "VBLANK"

\* read_vram / write_vram: the assert! on the address fails
VramAssertFails(address) ==
    ~(VRAM_ADDRESS <= address /\ address < VRAM_ADDRESS + VRAM_SIZE)

\* GPU::read_vram, for an address that passes the assert!
read_vram(g, address) ==
    IF Accessible(g) THEN Load(g.vram, address - VRAM_ADDRESS) ELSE 255

\* GPU::write_vram
write_vram(g, address, value) ==
    IF VramAssertFails(address) THEN [g EXCEPT !.panicked = TRUE]
    ELSE IF Accessible(g)
         THEN [g EXCEPT !.vram = Store(@, address - VRAM_ADDRESS, value)]
         ELSE g

\* read_oam / write_oam: self.oam[(address - OAM_ADDRESS) as usize] panics
\* (the subtraction overflows, or wraps to an index out of bounds, or the
\* index is not below OAM_SIZE); the index is computed only in an accessible mode
OamPanics(g, address) ==
    Accessible(g) /\ (address < OAM_ADDRESS \/ address - OAM_ADDRESS >= OAM_SIZE)

\* GPU::read_oam, for an address that does not panic
read_oam(g, address) ==
    IF Accessible(g) THEN Load(g.oam, address - OAM_ADDRESS) ELSE 255

\* GPU::write_oam
write_oam(g, address, value) ==
    IF OamPanics(g, address) THEN [g EXCEPT !.panicked = TRUE]
    ELSE IF Accessible(g)
         THEN [g EXCEPT !.oam = Store(@, address - OAM_ADDRESS, value)]
         ELSE g

\* GPU::get_lcdc
get_lcdc(g) == LCDC_REG_from(read(g.ram, LCDC_ADDRESS))

\* GPU::get_lcd_status
get_lcd_status(g) == LCD_STATUS_REG_from(read(g.ram, LCD_STATUS_ADDRESS))

-----------------------------------------------------------------------------
(* gpu.rs: the scanline renderer                                           *)

\* the match on color_number in render_background: the RGBA quad of a color
bg_color(color_number) ==
    CASE color_number = 0 -> <<255, 255, 255, 255>>
      [] color_number = 1 -> <<204, 204, 204, 255>>
      [] color_number = 2 -> <<119, 119, 119, 255>>
      [] color_number = 3 -> <<0, 0, 0, 255>>

\* the color number of bit color_bit of the two bitplane bytes:
\* ((tile_line_high >> color_bit) & 1) << 1 | ((tile_line >> color_bit) & 1)
color_number_of(tile_line, tile_line_high, color_bit) ==
    Bit(tile_line_high, color_bit) * 2 + Bit(tile_line, color_bit)

\* the body of render_background's loop for pixel x: the quad it writes.
\* Every address read passes read_vram's assert!: the tile map index is at
\* most 0x9C00 + 19*32 + 19 and the tile line address at most 0x97FF.
bg_pixel(g, x) ==
    LET lcdc == get_lcdc(g)
        y == g.current_scanline
        tile_map_addr == IF lcdc.bg_tile_map_display_select THEN 39936 ELSE 38912
        tile_data_addr == IF lcdc.bg_tile_data_select THEN 32768 ELSE 34816
        tile_x == x \div 8
        tile_y == y \div 8
        tile_map_index == (tile_y * 32 + tile_x) + tile_map_addr
        tile_number == read_vram(g, tile_map_index)
        tile_addr == IF lcdc.bg_tile_data_select
                     THEN tile_data_addr + tile_number * 16
                     ELSE tile_data_addr + (as_i8(tile_number) + 128) * 16
        pixel_x == x % 8
        pixel_y == y % 8
        tile_line == read_vram(g, tile_addr + pixel_y * 2)
        tile_line_high == read_vram(g, tile_addr + pixel_y * 2 + 1)
        color_bit == 7 - pixel_x
    IN  bg_color(color_number_of(tile_line, tile_line_high, color_bit))

\* render_background's screen_index for pixel x of scanline y
bg_screen_index(y, x) == y * SCANLINE_SIZE + x * 4

\* GPU::render_background: for each x in 0..SCANLINE_SIZE the quad of pixel x
\* is copied to screen_buffer[screen_index .. screen_index + 4]. The quads of
\* one call do not overlap and no pixel reads screen_buffer, so the loop is
\* the simultaneous update of the bytes bg_screen_index(y, 0) ..
\* bg_screen_index(y, 159) + 3 (all below the buffer's length for y <= 153).
render_background(g) ==
    LET y == g.current_scanline
        first == bg_screen_index(y, 0)
        written == first .. (bg_screen_index(y, SCANLINE_SIZE - 1) + 3)
        byte(i) == bg_pixel(g, (i - first) \div 4)[((i - first) % 4) + 1]
        old == g.screen_buffer
        new(i) == IF i \in written THEN byte(i) ELSE old[i]
    IN  [g EXCEPT !.screen_buffer =
            [i \in {j \in DOMAIN old \cup written : new(j) # 0} |-> new(i)]]

\* render_sprites: the sprites whose vertical extent covers the scanline
visible_sprites(g, sprite_height) ==
    {sprite_index \in 0..39 :
        LET sprite_y == read_oam(g, sprite_index * 4 + OAM_ADDRESS) - 16
        IN  sprite_y <= g.current_scanline /\ sprite_y + sprite_height > g.current_scanline}

\* visible_sprites.sort_by_key(|&i| read_oam(i * 4 + 1 + OAM_ADDRESS)): a stable
\* sort of the ascending index list, so equal keys stay in index order
RECURSIVE sort_by_key(_, _)
sort_by_key(g, sprites) ==
    IF sprites = {} THEN <<>>
    ELSE LET key(i) == read_oam(g, i * 4 + 1 + OAM_ADDRESS)
             least == CHOOSE i \in sprites :
                          \A j \in sprites :
                              key(i) < key(j) \/ (key(i) = key(j) /\ i <= j)
         IN  <<least>> \o sort_by_key(g, sprites \ {least})

\* an iterator that is not cut short
take_all(seq, n) == seq

\* .iter().take(n)
take(seq, n) == IF Len(seq) <= n THEN seq ELSE SubSeq(seq, 1, n)

\* the body of render_sprites's inner loop: pixel x of sprite sprite_index
sprite_pixel(g, sprite_index, x) ==
    LET lcdc == get_lcdc(g)
        y == g.current_scanline
        sprite_height == IF lcdc.obj_size THEN 16 ELSE 8
        sprite_width == 8
        sprite_addr == sprite_index * 4 + OAM_ADDRESS
        sprite_y == read_oam(g, sprite_addr) - 16
        sprite_x == read_oam(g, sprite_addr + 1) - 8
        tile_number == read_oam(g, sprite_addr + 2)
        attributes == read_oam(g, sprite_addr + 3)
        priority == BitAnd(attributes, 128) = 0
        y_flip == BitAnd(attributes, 64) # 0
        x_flip == BitAnd(attributes, 32) # 0
        tile_addr == 32768 + tile_number * 16
        pixel_y == IF y_flip THEN sprite_height - 1 - (y - sprite_y) ELSE y - sprite_y
        pixel_x == IF x_flip THEN sprite_width - 1 - x ELSE x
        tile_line == read_vram(g, tile_addr + pixel_y * 2)
        tile_line_high == read_vram(g, tile_addr + pixel_y * 2 + 1)
        color_bit == 7 - pixel_x
        color_number == color_number_of(tile_line, tile_line_high, color_bit)
        color == bg_color(color_number)
        screen_x == sprite_x + x
        screen_index == (y * SCANLINE_SIZE + screen_x) * 4
    IN  IF sprite_x + x < 0 \/ sprite_x + x >= SCANLINE_SIZE THEN g
        ELSE IF color_number = 0 THEN g
        ELSE IF screen_index + 4 > SCREEN_BUFFER_LEN THEN [g EXCEPT !.panicked = TRUE]
        ELSE IF priority \/ Load(g.screen_buffer, screen_index) = 255
             THEN [g EXCEPT !.screen_buffer =
                      Store(Store(Store(Store(@, screen_index, color[1]),
                                        screen_index + 1, color[2]),
                                  screen_index + 2, color[3]),
                            screen_index + 3, color[4])]
             ELSE g

\* render_sprites's two nested loops over the selected sprites and x in 0..8,
\* in order; todo is the sequence of the <<sprite_index, x>> still to draw
RECURSIVE draw_sprites(_, _)
draw_sprites(g, todo) ==
    IF todo = <<>> \/ g.panicked THEN g
    ELSE draw_sprites(sprite_pixel(g, Head(todo)[1], Head(todo)[2]), Tail(todo))

\* GPU::render_sprites
render_sprites(g) ==
    LET lcdc == get_lcdc(g)
        sprite_height == IF lcdc.obj_size THEN 16 ELSE 8
        sorted == sort_by_key(g, visible_sprites(g, sprite_height))
        selected == take(sorted, 10)
        todo == [k \in 1..(Len(selected) * 8) |->
                    <<selected[((k - 1) \div 8) + 1], (k - 1) % 8>>]
    IN  draw_sprites(g, todo)

\* GPU::render_scanline
render_scanline(g) ==
    LET lcdc == get_lcdc(g)
        g1 == IF lcdc.bg_enable THEN render_background(g) ELSE g
    IN  IF lcdc.obj_enable THEN render_sprites(g1) ELSE g1

-----------------------------------------------------------------------------
(* gpu.rs: the mode machine                                                *)

\* a Mode::OAM arm that restarts the count without leaving the mode
step_set_mode_OAM_stays(g) ==
    IF g.clock >= CYCLES_OAM
    THEN [g EXCEPT !.clock = 0]
    ELSE g

\* a Mode::OAM arm that carries the cycles beyond the threshold into the next
\* mode
step_set_mode_OAM_carry(g) ==
    IF g.clock >= CYCLES_OAM
    THEN [g EXCEPT !.mode = "VRAM", !.clock = @ - CYCLES_OAM]
    ELSE g

\* GPU::step_set_mode, the Mode::OAM arm
step_set_mode_OAM(g) ==
    IF g.clock >= CYCLES_OAM
    THEN [g EXCEPT !.mode = "VRAM", !.clock = 0]
    ELSE g

\* a Mode::VRAM arm that compares with > where the code has >=
step_set_mode_VRAM_late(g) ==
    IF g.clock > CYCLES_VRAM
    THEN [g EXCEPT !.mode = "HBLANK", !.clock = 0]
    ELSE g

\* GPU::step_set_mode, the Mode::VRAM arm
step_set_mode_VRAM(g) ==
    IF g.clock >= CYCLES_VRAM
    THEN [g EXCEPT !.mode = "HBLANK", !.clock = 0]
    ELSE g

\* a Mode::HBLANK arm that stores 0x01 in the interrupt-flags register where
\* the code ORs it in
step_set_mode_HBLANK_store(g) ==
    IF g.clock >= CYCLES_HBLANK
    THEN LET g1 == render_scanline(g)
             g2 == [g1 EXCEPT !.current_scanline = @ + 1, !.clock = 0]
         IN  IF g1.panicked THEN g1
             ELSE IF g2.current_scanline >= SCANLINES_DISPLAY
             THEN [g2 EXCEPT !.mode = "VBLANK",
                             !.ram = write(@, INTERRUPT_FLAGS_ADDRESS, 1)]
             ELSE [g2 EXCEPT !.mode = "OAM"]
    ELSE g

\* GPU::step_set_mode, the Mode::HBLANK arm
step_set_mode_HBLANK(g) ==
    IF g.clock >= CYCLES_HBLANK
    THEN LET g1 == render_scanline(g)
             g2 == [g1 EXCEPT !.current_scanline = @ + 1, !.clock = 0]
         IN  IF g1.panicked THEN g1
             ELSE IF g2.current_scanline >= SCANLINES_DISPLAY
             THEN [g2 EXCEPT !.mode = "VBLANK",
                             !.ram = write(@, INTERRUPT_FLAGS_ADDRESS,
                                           BitOr(read(@, INTERRUPT_FLAGS_ADDRESS), 1))]
             ELSE [g2 EXCEPT !.mode = "OAM"]
    ELSE g

\* a Mode::VBLANK arm that renders the scanline it leaves
step_set_mode_VBLANK_renders(g) ==
    IF g.clock >= CYCLES_VBLANK
    THEN LET g0 == render_scanline(g)
             g1 == [g0 EXCEPT !.current_scanline = @ + 1, !.clock = 0]
         IN  IF g0.panicked THEN g0
             ELSE IF g1.current_scanline >= MAX_SCANLINES
             THEN [g1 EXCEPT !.mode = "OAM", !.current_scanline = 0]
             ELSE g1
    ELSE g

\* a Mode::VBLANK arm that starts the new frame without resetting the
\* scanline counter
step_set_mode_VBLANK_noreset(g) ==
    IF g.clock >= CYCLES_VBLANK
    THEN LET g1 == [g EXCEPT !.current_scanline = @ + 1, !.clock = 0]
         IN  IF g1.current_scanline >= MAX_SCANLINES
             THEN [g1 EXCEPT !.mode = "OAM"]
             ELSE g1
    ELSE g

\* GPU::step_set_mode, the Mode::VBLANK arm
step_set_mode_VBLANK(g) ==
    IF g.clock >= CYCLES_VBLANK
    THEN LET g1 == [g EXCEPT !.current_scanline = @ + 1, !.clock = 0]
         IN  IF g1.current_scanline >= MAX_SCANLINES
             THEN [g1 EXCEPT !.mode = "OAM", !.current_scanline = 0]
             ELSE g1
    ELSE g

\* GPU::step_set_mode
step_set_mode(g) ==
    CASE g.mode = "OAM" -> step_set_mode_OAM(g)
      [] g.mode = "VRAM" -> step_set_mode_VRAM(g)
      [] g.mode = "HBLANK" -> step_set_mode_HBLANK(g)
      [] g.mode = "VBLANK" -> step_set_mode_VBLANK(g)

\* a step_lcd_status that keeps the ly_compare bit it read
step_lcd_status_stale_compare(g) ==
    LET lcd_status == [get_lcd_status(g) EXCEPT !.mode = g.mode]
        ram1 == write(g.ram, LY_ADDRESS, g.current_scanline)
    IN  [g EXCEPT !.ram = write(ram1, LCD_STATUS_ADDRESS, LCD_STATUS_REG_into(lcd_status))]

\* GPU::step_lcd_status
step_lcd_status(g) ==
    LET lcd_status == [get_lcd_status(g) EXCEPT !.mode = g.mode]
        ram1 == write(g.ram, LY_ADDRESS, g.current_scanline)
        lcd_status1 == [lcd_status EXCEPT
                           !.ly_compare = (g.current_scanline = read(ram1, LYC_ADDRESS))]
    IN  [g EXCEPT !.ram = write(ram1, LCD_STATUS_ADDRESS, LCD_STATUS_REG_into(lcd_status1))]

\* GPU::step. self.clock is a u32 that every transition resets to 0 and that
\* stays below CYCLES_VBLANK between transitions, so self.clock += cycles
\* overflows only for a cycle count above 2^32 - CYCLES_VBLANK; the cycle
\* counts of this model are far below that and the sum is exact.
GPU_step(g, cycles) ==
    LET g1 == step_set_mode([g EXCEPT !.clock = g.clock + cycles])
    IN  IF g1.panicked THEN g1 ELSE step_lcd_status(g1)

-----------------------------------------------------------------------------
(* cpu.rs: a CPU value s is the record of CPU's fields and of the RAM it   *)
(* borrows, with the process's panicked flag and the build's               *)
(* overflow_checks. An operation that panics returns the state with what   *)
(* it had changed before the panic and panicked set.                       *)

\* CPU::new
CPU_new(ram_in, checks) ==
    [registers |-> Registers_new,
     ram |-> ram_in,
     interrupt_master_enable |-> FALSE,
     previous_ime |-> FALSE,
     clock_cycles |-> 0,
     panicked |-> FALSE,
     overflow_checks |-> checks]

\* a fatal stop that has first counted the cycles of a fetch
Panic_counted(s) == [s EXCEPT !.panicked = TRUE, !.clock_cycles = @ + 4]

\* panic!, a failed assert!, an index out of bounds, a checked overflow
Panic(s) == [s EXCEPT !.panicked = TRUE]

\* the ArithmeticTarget values that name an 8-bit register with accessors
Reg8 == {"A", "B", "C", "D", "E", "H", "L"}

\* the Registers field an ArithmeticTarget names
field(target) ==
    CASE target = "A" -> "a"
      [] target = "B" -> "b"
      [] target = "C" -> "c"
      [] target = "D" -> "d"
      [] target = "E" -> "e"
      [] target = "H" -> "h"
      [] target = "L" -> "l"
      [] target = "F" -> "f"
      [] target = "SP" -> "sp"

\* self.registers.get_hl() and the other pair getters
get_hl(s) == get_u16(s.registers, "h", "l")
get_bc(s) == get_u16(s.registers, "b", "c")
get_de(s) == get_u16(s.registers, "d", "e")
get_af(s) == get_u16(s.registers, "a", "f")

\* self.registers.set_<reg>(value) for a plain register (get_set!)
set_reg(s, reg, value) == [s EXCEPT !.registers[reg] = value]

\* self.registers.set_<pair>(value) (get_set_u16!)
set_pair(s, reg1, reg2, value) == [s EXCEPT !.registers = set_u16(@, reg1, reg2, value)]

\* flags & (FlagMasks::X as u8) != 0 on the F register
flag_set(s, mask) == BitAnd(s.registers.f, mask) # 0

\* CPU::set_flags
set_flags(s, zero, subtract, half_carry, carry) ==
    [s EXCEPT !.registers =
        set_f(@, to_u8([zero |-> zero, subtract |-> subtract,
                        half_carry |-> half_carry, carry |-> carry]))]

\* CPU::ei
ei(s) == [s EXCEPT !.interrupt_master_enable = TRUE]

\* CPU::di
di(s) == [s EXCEPT !.interrupt_master_enable = FALSE]

\* CPU::ld_rr
ld_rr(s, destination, source) ==
    IF source \notin Reg8 THEN Panic(s)
    ELSE IF destination \notin Reg8 THEN Panic(s)
    ELSE set_reg(s, field(destination), s.registers[field(source)])

\* CPU::ld_reg_mem
ld_reg_mem(s, target) ==
    LET address == get_hl(s)
    IN  IF RamPanics(address) THEN Panic(s)
        ELSE IF target \notin Reg8 THEN Panic(s)
        ELSE set_reg(s, field(target), read(s.ram, address))

\* CPU::ld_mem_imm
ld_mem_imm(s, value) ==
    LET address == get_hl(s)
    IN  IF RamPanics(address) THEN Panic(s)
        ELSE [s EXCEPT !.ram = write(@, address, value)]

\* CPU::ld_reg_imm
ld_reg_imm(s, target, value) ==
    IF target \notin Reg8 THEN Panic(s)
    ELSE set_reg(s, field(target), value)

\* the shared tail of the load/store helpers: `if load { A = read(address) }
\* else { write(address, A) }`
load_or_store(s, address, load) ==
    IF RamPanics(address) THEN Panic(s)
    ELSE IF load THEN set_reg(s, "a", read(s.ram, address))
    ELSE [s EXCEPT !.ram = write(@, address, s.registers.a)]

\* CPU::ld_mem_inc
ld_mem_inc(s, increment, load) ==
    LET address == get_hl(s)
        moved == IF increment THEN address + 1 ELSE address - 1
    IN  IF Overflows(moved, U16_MAX) /\ s.overflow_checks THEN Panic(s)
        ELSE load_or_store(set_pair(s, "h", "l", Wrap(moved, U16_MAX)), address, load)

\* CPU::mod_mem
mod_mem(s, increment) ==
    LET address == get_hl(s)
        value == read(s.ram, address)
        changed == IF increment THEN value + 1 ELSE value - 1
        half_carry == IF increment THEN BitAnd(value, 15) + 1 > 15
                      ELSE BitAnd(value, 15) = 0
        zero == BitAnd(Wrap(changed, U8_MAX), 255) = 0
    IN  IF RamPanics(address) THEN Panic(s)
        ELSE IF Overflows(changed, U8_MAX) /\ s.overflow_checks THEN Panic(s)
        ELSE set_flags([s EXCEPT !.ram = write(@, address, Wrap(changed, U8_MAX))],
                       half_carry, FALSE, zero, ~increment)

\* CPU::ld_bcde
ld_bcde(s, target1, target2, load) ==
    CASE target1 = "B" /\ target2 = "C" -> load_or_store(s, get_bc(s), load)
      [] target1 = "D" /\ target2 = "E" -> load_or_store(s, get_de(s), load)
      [] OTHER -> Panic(s)

\* CPU::ld_imm_16
ld_imm_16(s, address, load) == load_or_store(s, address, load)

\* CPU::ld_imm_8
ld_imm_8(s, value, load) == load_or_store(s, 65280 + value, load)

\* CPU::ld_ac
ld_ac(s, load) == load_or_store(s, 65280 + s.registers.c, load)

\* CPU::ld_reg_imm_16
ld_reg_imm_16(s, target1, target2, value) ==
    CASE target1 = "B" /\ target2 = "C" -> set_pair(s, "b", "c", value)
      [] target1 = "D" /\ target2 = "E" -> set_pair(s, "d", "e", value)
      [] target1 = "H" /\ target2 = "L" -> set_pair(s, "h", "l", value)
      [] target1 = "SP" /\ target2 = "SP" -> set_reg(s, "sp", value)
      [] OTHER -> Panic(s)

\* CPU::store_sp
store_sp(s, address) ==
    LET sp == s.registers.sp
        s1 == [s EXCEPT !.ram = write(@, address, BitAnd(sp, 255))]
    IN  IF RamPanics(address) THEN Panic(s)
        ELSE IF RamPanics(address + 1) THEN Panic(s1)
        ELSE [s1 EXCEPT !.ram = write(@, address + 1, sp \div 256)]

\* CPU::inc_sp
inc_sp(s, value) ==
    LET sum == s.registers.sp + as_u16(value)
        result == Wrap(sum, U16_MAX)
        carry == sum > U16_MAX
        half_carry == BitAnd(result, 255) + BitAnd(as_u16(value), 255) > 255
    IN  set_flags(set_reg(s, "sp", result), half_carry, carry, FALSE, FALSE)

\* CPU::ld_sp_hl
ld_sp_hl(s) == set_reg(s, "sp", get_hl(s))

\* CPU::ld_hl_sp
ld_hl_sp(s, value) ==
    LET sum == s.registers.sp + as_u16(value)
        result == Wrap(sum, U16_MAX)
        carry == sum > U16_MAX
        half_carry == BitAnd(result, 255) + BitAnd(as_u16(value), 255) > 255
    IN  set_flags(set_pair(s, "h", "l", result), half_carry, carry, FALSE, FALSE)

\* pop_16bit!: either of its two reads is out of bounds (sp + 1 and sp + 2
\* cannot overflow before a read has panicked)
PopPanics(sp) == RamPanics(sp) \/ RamPanics(sp + 1)

\* pop_16bit!: the value it passes to the setter, low byte read first
pop_16bit(s, sp) == read(s.ram, sp + 1) * 256 + read(s.ram, sp)

\* push_16bit!: *sp -= 1, write the high byte, *sp -= 1, write the low byte.
\* A decrement of 0 panics in a build with overflow checks and otherwise
\* wraps to 0xFFFF, where the write is out of bounds. The caller stores the
\* decremented sp when the macro has not panicked.
push_16bit(s, sp, value) ==
    LET s1 == [s EXCEPT !.ram = write(@, sp - 1, BitAnd(value \div 256, 255))]
    IN  IF sp = 0 THEN Panic(s)
        ELSE IF sp = 1 THEN Panic(s1)
        ELSE [s1 EXCEPT !.ram = write(@, sp - 2, BitAnd(value, 255))]

\* CPU::ret
ret(s, carry, zero, interrupt) ==
    LET is_carry_set == flag_set(s, CARRY)
        is_zero_set == flag_set(s, ZERO)
        is_interrupt_enabled == s.interrupt_master_enable
        should_jump == (is_carry_set /\ carry) \/ (is_zero_set /\ zero)
                       \/ (interrupt /\ is_interrupt_enabled)
                       \/ (~carry /\ ~zero /\ ~interrupt)
        sp == s.registers.sp
        s1 == IF should_jump
              THEN set_reg(set_reg(s, "pc", pop_16bit(s, sp)), "sp", sp + 2)
              ELSE s
    IN  IF ~(~carry \/ ~zero) THEN Panic(s)
        ELSE IF ~(~(carry \/ zero) \/ ~interrupt) THEN Panic(s)
        ELSE IF should_jump /\ PopPanics(sp) THEN Panic(s)
        ELSE IF interrupt
             THEN [s1 EXCEPT !.previous_ime = s1.interrupt_master_enable,
                             !.interrupt_master_enable = s1.previous_ime]
             ELSE s1

\* CPU::ret_n
ret_n(s, carry, zero) ==
    LET is_carry_set == flag_set(s, CARRY)
        is_zero_set == flag_set(s, ZERO)
        should_jump == (~is_carry_set /\ carry) \/ (~is_zero_set /\ zero)
        sp == s.registers.sp
    IN  IF ~(~carry \/ ~zero) THEN Panic(s)
        ELSE IF ~should_jump THEN s
        ELSE IF PopPanics(sp) THEN Panic(s)
        ELSE set_reg(set_reg(s, "pc", pop_16bit(s, sp)), "sp", sp + 2)

\* CPU::rst
rst(s, value) ==
    LET sp == s.registers.sp
        s1 == push_16bit(s, sp, s.registers.pc)
    IN  IF ~(0 <= value /\ value <= 7) THEN Panic(s)
        ELSE IF s1.panicked THEN s1
        ELSE set_reg(set_reg(s1, "sp", sp - 2), "pc", value * 8)

\* a should_jump that tests the flag itself for the negated conditions too
should_jump_not_negated(s, carry, zero, negative) ==
    (carry /\ flag_set(s, CARRY)) \/ (zero /\ flag_set(s, ZERO)) \/ (~carry /\ ~zero)

\* call / jr / jp: should_jump, from the three condition selectors
should_jump(s, carry, zero, negative) ==
    LET is_carry_set == IF negative THEN ~flag_set(s, CARRY) ELSE flag_set(s, CARRY)
        is_zero_set == IF negative THEN ~flag_set(s, ZERO) ELSE flag_set(s, ZERO)
    IN  (carry /\ is_carry_set) \/ (zero /\ is_zero_set) \/ (~carry /\ ~zero)

\* CPU::call
call(s, address, carry, zero, negative) ==
    LET sp == s.registers.sp
        pc == s.registers.pc
        s1 == set_reg(s, "pc", Wrap(pc + 3, U16_MAX))
        s2 == push_16bit(s1, sp, s1.registers.pc)
    IN  IF ~(~carry \/ ~zero) THEN Panic(s)
        ELSE IF ~should_jump(s, carry, zero, negative) THEN s
        ELSE IF Overflows(pc + 3, U16_MAX) /\ s.overflow_checks THEN Panic(s)
        ELSE IF s2.panicked THEN s2
        ELSE set_reg(set_reg(s2, "sp", sp - 2), "pc", address)

\* CPU::jr
jr(s, carry, zero, negative, jump_value) ==
    IF ~(~carry \/ ~zero) THEN Panic(s)
    ELSE IF ~should_jump(s, carry, zero, negative) THEN s
    ELSE set_reg(s, "pc", Wrap(s.registers.pc + jump_value, U16_MAX))

\* CPU::jp
jp(s, carry, zero, negative, jump_value) ==
    IF ~(~carry \/ ~zero) THEN Panic(s)
    ELSE IF ~should_jump(s, carry, zero, negative) THEN s
    ELSE set_reg(s, "pc", jump_value)

\* CPU::jp_hl
jp_hl(s) == set_reg(s, "pc", get_hl(s))

\* CPU::pop
pop(s, target, target2) ==
    LET sp == s.registers.sp
        value == pop_16bit(s, sp)
        popped(reg1, reg2) ==
            IF PopPanics(sp) THEN Panic(s)
            ELSE set_reg(set_pair(s, reg1, reg2, value), "sp", sp + 2)
    IN  CASE target = "B" /\ target2 = "C" -> popped("b", "c")
          [] target = "D" /\ target2 = "E" -> popped("d", "e")
          [] target = "H" /\ target2 = "L" -> popped("h", "l")
          [] target = "A" /\ target2 = "F" -> popped("a", "f")
          [] OTHER -> Panic(s)

\* CPU::push
push(s, target, target2) ==
    LET sp == s.registers.sp
        pushed(value) ==
            LET s1 == push_16bit(s, sp, value)
            IN  IF s1.panicked THEN s1 ELSE set_reg(s1, "sp", sp - 2)
    IN  CASE target = "B" /\ target2 = "C" -> pushed(get_bc(s))
          [] target = "D" /\ target2 = "E" -> pushed(get_de(s))
          [] target = "H" /\ target2 = "L" -> pushed(get_hl(s))
          [] target = "A" /\ target2 = "F" -> pushed(get_af(s))
          [] OTHER -> Panic(s)

\* CPU::add_hl
add_hl(s, target1, target2) ==
    LET value == get_hl(s)
        added(add_value) ==
            LET result == Wrap(value + add_value, U16_MAX)
                carry == Overflows(value + add_value, U16_MAX)
                half_carry == BitAnd(value, 255) + BitAnd(add_value, 255) > 255
            IN  set_flags(set_pair(s, "h", "l", result),
                          half_carry, carry, result = 0, FALSE)
    IN  CASE target1 = "B" /\ target2 = "C" -> added(get_bc(s))
          [] target1 = "D" /\ target2 = "E" -> added(get_de(s))
          [] target1 = "H" /\ target2 = "L" -> added(get_hl(s))
          [] target1 = "SP" /\ target2 = "SP" -> added(s.registers.sp)
          [] OTHER -> Panic(s)

\* CPU::inc
inc(s, target) ==
    LET value == s.registers[field(target)]
        max == IF target = "SP" THEN U16_MAX ELSE U8_MAX
        s1 == set_reg(s, field(target), Wrap(value + 1, max))
        half_carry == BitAnd(value, 15) + 1 > 15
        carry == flag_set(s1, CARRY)
        zero == BitAnd(value + 1, 255) = 0
    IN  IF target \notin Reg8 \cup {"SP"} THEN Panic(s)
        ELSE IF Overflows(value + 1, max) /\ s.overflow_checks THEN Panic(s)
        ELSE IF target = "SP" THEN s1
        ELSE set_flags(s1, zero, FALSE, half_carry, carry)

\* CPU::dec. value is a u16, so (value & 0xF) - 1 underflows when the low
\* nibble is 0 (a panic after the register was written, or a wrap to 0xFFFF)
\* and "< 0" is never true.
dec(s, target) ==
    LET value == s.registers[field(target)]
        max == IF target = "SP" THEN U16_MAX ELSE U8_MAX
        s1 == set_reg(s, field(target), Wrap(value - 1, max))
        half_carry == FALSE
        carry == flag_set(s1, CARRY)
        zero == BitAnd(Wrap(value - 1, U16_MAX), 255) = 0
    IN  IF target \notin Reg8 \cup {"SP"} THEN Panic(s)
        ELSE IF Overflows(value - 1, max) /\ s.overflow_checks THEN Panic(s)
        ELSE IF target = "SP" THEN s1
        ELSE IF Overflows(BitAnd(value, 15) - 1, U16_MAX) /\ s.overflow_checks
             THEN Panic(s1)
        ELSE set_flags(s1, zero, TRUE, half_carry, carry)

\* the operand of inc_16 / dec_16: a register pair, or SP given twice
Pair16(target1, target2) ==
    <<target1, target2>> \in {<<"B", "C">>, <<"D", "E">>, <<"H", "L">>, <<"SP", "SP">>}

\* the value of such an operand
get_16(s, target1, target2) ==
    IF target1 = "SP" THEN s.registers.sp
    ELSE get_u16(s.registers, field(target1), field(target2))

\* the setter of such an operand
set_16(s, target1, target2, value) ==
    IF target1 = "SP" THEN set_reg(s, "sp", value)
    ELSE set_pair(s, field(target1), field(target2), value)

\* CPU::inc_16
inc_16(s, target1, target2) ==
    LET value == get_16(s, target1, target2)
    IN  IF ~Pair16(target1, target2) THEN Panic(s)
        ELSE IF Overflows(value + 1, U16_MAX) /\ s.overflow_checks THEN Panic(s)
        ELSE set_16(s, target1, target2, Wrap(value + 1, U16_MAX))

\* CPU::dec_16
dec_16(s, target1, target2) ==
    LET value == get_16(s, target1, target2)
    IN  IF ~Pair16(target1, target2) THEN Panic(s)
        ELSE IF Overflows(value - 1, U16_MAX) /\ s.overflow_checks THEN Panic(s)
        ELSE set_16(s, target1, target2, Wrap(value - 1, U16_MAX))

\* Registers::increment_pc
increment_pc(s) ==
    IF Overflows(s.registers.pc + 1, U16_MAX) /\ s.overflow_checks THEN Panic(s)
    ELSE set_reg(s, "pc", Wrap(s.registers.pc + 1, U16_MAX))

\* CPU::nop
nop(s) == increment_pc(s)

\* an add whose half-carry compares the operand with the old accumulator
add_half_of_old(s, value) ==
    LET a == s.registers.a
        result == Wrap(a + value, U8_MAX)
        carry == Overflows(a + value, U8_MAX)
        half_carry == BitAnd(a, 15) < BitAnd(value, 15)
    IN  set_flags(set_reg(s, "a", result), result = 0, FALSE, half_carry, carry)

\* CPU::add
add(s, value) ==
    LET a == s.registers.a
        result == Wrap(a + value, U8_MAX)
        carry == Overflows(a + value, U8_MAX)
        half_carry == BitAnd(result, 15) < BitAnd(value, 15)
    IN  set_flags(set_reg(s, "a", result), result = 0, FALSE, half_carry, carry)

\* CPU::sub
sub(s, value) ==
    LET a == s.registers.a
        result == Wrap(a - value, U8_MAX)
        carry == Overflows(a - value, U8_MAX)
        half_carry == BitAnd(result, 15) < BitAnd(value, 15)
    IN  set_flags(set_reg(s, "a", result), result = 0, TRUE, half_carry, carry)

\* CPU::and
and(s, value) ==
    LET result == BitAnd(s.registers.a, value)
    IN  set_flags(set_reg(s, "a", result), result = 0, FALSE, TRUE, FALSE)

\* CPU::or
or(s, value) ==
    LET result == BitOr(s.registers.a, value)
    IN  set_flags(set_reg(s, "a", result), result = 0, FALSE, FALSE, FALSE)

\* CPU::xor
xor(s, value) ==
    LET result == BitXor(s.registers.a, value)
    IN  set_flags(set_reg(s, "a", result), result = 0, FALSE, FALSE, FALSE)

\* CPU::cp
cp(s, value) ==
    LET a == s.registers.a
        result == Wrap(a - value, U8_MAX)
        carry == a < value
        half_carry == BitAnd(a, 15) + BitAnd(value, 15) > 15
    IN  IF Overflows(a - value, U8_MAX) /\ s.overflow_checks THEN Panic(s)
        ELSE set_flags(s, result = 0, TRUE, half_carry, carry)

\* CPU::rl. flags & (FlagMasks::CARRY as u8) >> 4 parses as flags & (0x10 >> 4)
rl(s, carry) ==
    LET value == s.registers.a
        overflow == BitAnd(value, 128) # 0
        shifted == (value * 2) % 256
        result == IF carry
                  THEN BitOr(shifted, IF overflow THEN 1 ELSE 0)
                  ELSE BitOr(shifted, BitAnd(s.registers.f, CARRY \div 16))
    IN  set_flags(set_reg(s, "a", result), FALSE, FALSE, FALSE, overflow)

\* CPU::rr
rr(s, carry) ==
    LET value == s.registers.a
        overflow == BitAnd(value, 1) # 0
        shifted == value \div 2
        result == IF carry
                  THEN BitOr(shifted, IF overflow THEN 128 ELSE 0)
                  ELSE BitOr(shifted, BitAnd(s.registers.f, CARRY \div 16))
    IN  set_flags(set_reg(s, "a", result), FALSE, FALSE, FALSE, overflow)

\* CPU::daa
daa(s) ==
    LET a0 == s.registers.a
        low == BitAnd(a0, 15) > 9 \/ flag_set(s, HALF_CARRY)
        high == (a0 \div 16) > 9 \/ flag_set(s, CARRY)
        adjust == BitOr(IF low THEN 6 ELSE 0, IF high THEN 96 ELSE 0)
        carry == high
        subtract == flag_set(s, SUBTRACT)
        a == IF subtract THEN Wrap(a0 - adjust, U8_MAX) ELSE Wrap(a0 + adjust, U8_MAX)
        half_carry == BitAnd(a, 15) < BitAnd(adjust, 15)
    IN  set_reg(set_flags(s, a = 0, subtract, half_carry, carry), "a", a)

\* CPU::scf
scf(s) == set_flags(s, flag_set(s, ZERO), FALSE, FALSE, TRUE)

\* CPU::ccf
ccf(s) == set_flags(s, flag_set(s, ZERO), FALSE, FALSE, ~flag_set(s, CARRY))

\* CPU::cpl
cpl(s) ==
    LET s1 == set_reg(s, "a", 255 - s.registers.a)
    IN  set_flags(s1, flag_set(s1, ZERO), TRUE, TRUE, flag_set(s1, CARRY))

-----------------------------------------------------------------------------
(* cpu.rs: instructions, execute, decode, step                              *)

\* a value of enum Instruction: the variant, its fields in order, and the
\* number of immediate bytes the decode arm that built it put into them
Ins(op, args, nimm) == [op |-> op, args |-> args, nimm |-> nimm]

\* a decode arm that is panic!("... not implemented")
Unimplemented == [op |-> "panic", args |-> <<>>, nimm |-> 0]

\* self.$op(value): the method a macro or an execute arm is given by name
apply(s, op, value) ==
    CASE op = "add" -> add(s, value)
      [] op = "sub" -> sub(s, value)
      [] op = "and" -> and(s, value)
      [] op = "or" -> or(s, value)
      [] op = "xor" -> xor(s, value)
      [] op = "cp" -> cp(s, value)
      [] op = "ld_mem_imm" -> ld_mem_imm(s, value)

\* arithmetic_op!
arithmetic_op(s, target, op) ==
    IF target \notin Reg8 THEN Panic(s)
    ELSE apply(s, op, s.registers[field(target)])

\* carry_op!: carry is the whole of F shifted right by 4, added to the
\* register as a u8
carry_op(s, target, op) ==
    LET carry == s.registers.f \div 16
        value == s.registers[field(target)] + carry
    IN  IF target \notin Reg8 THEN Panic(s)
        ELSE IF Overflows(value, U8_MAX) /\ s.overflow_checks THEN Panic(s)
        ELSE apply(s, op, Wrap(value, U8_MAX))

\* execute, ADC_IMM / SBC_IMM / ADC_MEM / SBC_MEM: the operand
\* value + self.registers.get_f() & (FlagMasks::CARRY as u8), which parses
\* as (value + f) & 0x10
carry_imm_op(s, value, op) ==
    LET sum == value + s.registers.f
    IN  IF Overflows(sum, U8_MAX) /\ s.overflow_checks THEN Panic(s)
        ELSE apply(s, op, BitAnd(Wrap(sum, U8_MAX), CARRY))

\* execute, the _MEM arms: the operand self.ram.read(self.registers.get_hl())
mem_op(s, op) ==
    IF RamPanics(get_hl(s)) THEN Panic(s)
    ELSE apply(s, op, read(s.ram, get_hl(s)))

\* execute, ADC_MEM / SBC_MEM
carry_mem_op(s, op) ==
    IF RamPanics(get_hl(s)) THEN Panic(s)
    ELSE carry_imm_op(s, read(s.ram, get_hl(s)), op)

\* CPU::execute
execute(s, instruction) ==
    LET a == instruction.args
        i == instruction.op
    IN  CASE i = "ADD" -> arithmetic_op(s, a[1], "add")
          [] i = "ADC" -> carry_op(s, a[1], "add")
          [] i = "SUB" -> arithmetic_op(s, a[1], "sub")
          [] i = "SBC" -> carry_op(s, a[1], "sub")
          [] i = "AND" -> arithmetic_op(s, a[1], "and")
          [] i = "OR" -> arithmetic_op(s, a[1], "or")
          [] i = "XOR" -> arithmetic_op(s, a[1], "xor")
          [] i = "CP" -> arithmetic_op(s, a[1], "cp")
          [] i = "INC" -> inc(s, a[1])
          [] i = "DEC" -> dec(s, a[1])
          [] i = "INC_16" -> inc_16(s, a[1], a[2])
          [] i = "DEC_16" -> dec_16(s, a[1], a[2])
          [] i = "RL" -> rl(s, a[1])
          [] i = "RR" -> rr(s, a[1])
          [] i = "DAA" -> daa(s)
          [] i = "NOP" -> nop(s)
          [] i = "EI" -> ei(s)
          [] i = "DI" -> di(s)
          [] i = "PUSH" -> push(s, a[1], a[2])
          [] i = "POP" -> pop(s, a[1], a[2])
          [] i = "RET" -> ret(s, a[1], a[2], a[3])
          [] i = "RET_N" -> ret_n(s, a[1], a[2])
          [] i = "RST" -> rst(s, a[1])
          [] i = "CALL" -> call(s, a[1], a[2], a[3], a[4])
          [] i = "JR" -> jr(s, a[1], a[2], a[3], a[4])
          [] i = "JP" -> jp(s, a[1], a[2], a[3], a[4])
          [] i = "JP_HL" -> jp_hl(s)
          [] i = "LD_RR" -> ld_rr(s, a[1], a[2])
          [] i = "LD_MEM_REG" -> arithmetic_op(s, a[1], "ld_mem_imm")
          [] i = "LD_REG_MEM" -> ld_reg_mem(s, a[1])
          [] i = "LD_MEM_IMM" -> ld_mem_imm(s, a[1])
          [] i = "LD_REG_IMM" -> ld_reg_imm(s, a[1], a[2])
          [] i = "LD_MEM_INC" -> ld_mem_inc(s, a[1], a[2])
          [] i = "LD_BCDE" -> ld_bcde(s, a[1], a[2], a[3])
          [] i = "LD_IMM_16" -> ld_imm_16(s, a[1], a[2])
          [] i = "LD_IMM_8" -> ld_imm_8(s, a[1], a[2])
          [] i = "LD_AC" -> ld_ac(s, a[1])
          [] i = "ADD_IMM" -> add(s, a[1])
          [] i = "ADC_IMM" -> carry_imm_op(s, a[1], "add")
          [] i = "SUB_IMM" -> sub(s, a[1])
          [] i = "SBC_IMM" -> carry_imm_op(s, a[1], "sub")
          [] i = "AND_IMM" -> and(s, a[1])
          [] i = "OR_IMM" -> or(s, a[1])
          [] i = "XOR_IMM" -> xor(s, a[1])
          [] i = "CP_IMM" -> cp(s, a[1])
          [] i = "ADD_MEM" -> mem_op(s, "add")
          [] i = "SUB_MEM" -> mem_op(s, "sub")
          [] i = "ADC_MEM" -> carry_mem_op(s, "add")
          [] i = "SBC_MEM" -> carry_mem_op(s, "sub")
          [] i = "AND_MEM" -> mem_op(s, "and")
          [] i = "OR_MEM" -> mem_op(s, "or")
          [] i = "XOR_MEM" -> mem_op(s, "xor")
          [] i = "CP_MEM" -> mem_op(s, "cp")
          [] i = "LD_REG_IMM_16" -> ld_reg_imm_16(s, a[1], a[2], a[3])
          [] i = "ADD_HL" -> add_hl(s, a[1], a[2])
          [] i = "STORE_SP" -> store_sp(s, a[1])
          [] i = "INC_SP" -> inc_sp(s, a[1])
          [] i = "LD_SP_HL" -> ld_sp_hl(s)
          [] i = "LD_HL_SP" -> ld_hl_sp(s, a[1])
          [] i = "MOD_MEM" -> mod_mem(s, a[1])
          [] i = "SCF" -> scf(s)
          [] i = "CCF" -> ccf(s)
          [] i = "CPL" -> cpl(s)

\* CPU::decode_instruction, the match on the opcode
decode_arm(opcode, immediate1, immediate_16) ==
    CASE opcode = 0 -> Ins("NOP", <<>>, 0)
      [] opcode = 1 -> Ins("LD_REG_IMM_16", <<"B", "C", immediate_16>>, 2)
      [] opcode = 2 -> Ins("LD_BCDE", <<"B", "C", FALSE>>, 0)
      [] opcode = 3 -> Ins("INC_16", <<"B", "C">>, 0)
      [] opcode = 4 -> Ins("INC", <<"B">>, 0)
      [] opcode = 5 -> Ins("DEC", <<"B">>, 0)
      [] opcode = 6 -> Ins("LD_REG_IMM", <<"B", immediate1>>, 1)
      [] opcode = 7 -> Ins("RL", <<TRUE>>, 0)
      [] opcode = 8 -> Ins("STORE_SP", <<immediate_16>>, 2)
      [] opcode = 9 -> Ins("ADD_HL", <<"B", "C">>, 0)
      [] opcode = 10 -> Ins("LD_BCDE", <<"B", "C", TRUE>>, 0)
      [] opcode = 11 -> Ins("DEC_16", <<"B", "C">>, 0)
      [] opcode = 12 -> Ins("INC", <<"C">>, 0)
      [] opcode = 13 -> Ins("DEC", <<"C">>, 0)
      [] opcode = 14 -> Ins("LD_REG_IMM", <<"C", immediate1>>, 1)
      [] opcode = 15 -> Ins("RR", <<TRUE>>, 0)
      [] opcode = 16 -> Unimplemented
      [] opcode = 17 -> Ins("LD_REG_IMM_16", <<"D", "E", immediate_16>>, 2)
      [] opcode = 18 -> Ins("LD_BCDE", <<"D", "E", FALSE>>, 0)
      [] opcode = 19 -> Ins("INC_16", <<"D", "E">>, 0)
      [] opcode = 20 -> Ins("INC", <<"D">>, 0)
      [] opcode = 21 -> Ins("DEC", <<"D">>, 0)
      [] opcode = 22 -> Ins("LD_REG_IMM", <<"D", immediate1>>, 1)
      [] opcode = 23 -> Ins("RL", <<FALSE>>, 0)
      [] opcode = 24 -> Ins("JR", <<FALSE, FALSE, FALSE, as_i8(immediate1)>>, 1)
      [] opcode = 25 -> Ins("ADD_HL", <<"D", "E">>, 0)
      [] opcode = 26 -> Ins("LD_BCDE", <<"D", "E", TRUE>>, 0)
      [] opcode = 27 -> Ins("DEC_16", <<"D", "E">>, 0)
      [] opcode = 28 -> Ins("INC", <<"E">>, 0)
      [] opcode = 29 -> Ins("DEC", <<"E">>, 0)
      [] opcode = 30 -> Ins("LD_REG_IMM", <<"E", immediate1>>, 1)
      [] opcode = 31 -> Ins("RR", <<FALSE>>, 0)
      [] opcode = 32 -> Ins("JR", <<FALSE, TRUE, TRUE, as_i8(immediate1)>>, 1)
      [] opcode = 33 -> Ins("LD_REG_IMM_16", <<"H", "L", immediate_16>>, 2)
      [] opcode = 34 -> Ins("LD_MEM_INC", <<TRUE, FALSE>>, 0)
      [] opcode = 35 -> Ins("INC_16", <<"H", "L">>, 0)
      [] opcode = 36 -> Ins("INC", <<"H">>, 0)
      [] opcode = 37 -> Ins("DEC", <<"H">>, 0)
      [] opcode = 38 -> Ins("LD_REG_IMM", <<"H", immediate1>>, 1)
      [] opcode = 39 -> Ins("DAA", <<>>, 0)
      [] opcode = 40 -> Ins("JR", <<FALSE, TRUE, FALSE, as_i8(immediate1)>>, 1)
      [] opcode = 41 -> Ins("ADD_HL", <<"H", "L">>, 0)
      [] opcode = 42 -> Ins("LD_MEM_INC", <<TRUE, TRUE>>, 0)
      [] opcode = 43 -> Ins("DEC_16", <<"H", "L">>, 0)
      [] opcode = 44 -> Ins("INC", <<"L">>, 0)
      [] opcode = 45 -> Ins("DEC", <<"L">>, 0)
      [] opcode = 46 -> Ins("LD_REG_IMM", <<"L", immediate1>>, 1)
      [] opcode = 47 -> Ins("CPL", <<>>, 0)
      [] opcode = 48 -> Ins("JR", <<TRUE, FALSE, TRUE, as_i8(immediate1)>>, 1)
      [] opcode = 49 -> Ins("LD_REG_IMM_16", <<"SP", "SP", immediate_16>>, 2)
      [] opcode = 50 -> Ins("LD_MEM_INC", <<FALSE, FALSE>>, 0)
      [] opcode = 51 -> Ins("INC_16", <<"SP", "SP">>, 0)
      [] opcode = 52 -> Ins("MOD_MEM", <<FALSE>>, 0)
      [] opcode = 53 -> Ins("MOD_MEM", <<TRUE>>, 0)
      [] opcode = 54 -> Ins("LD_MEM_IMM", <<immediate1>>, 1)
      [] opcode = 55 -> Ins("SCF", <<>>, 0)
      [] opcode = 56 -> Ins("JR", <<TRUE, FALSE, FALSE, as_i8(immediate1)>>, 1)
      [] opcode = 57 -> Ins("ADD_HL", <<"SP", "SP">>, 0)
      [] opcode = 58 -> Ins("LD_MEM_INC", <<FALSE, TRUE>>, 0)
      [] opcode = 59 -> Ins("DEC_16", <<"SP", "SP">>, 0)
      [] opcode = 60 -> Ins("INC", <<"A">>, 0)
      [] opcode = 61 -> Ins("DEC", <<"A">>, 0)
      [] opcode = 62 -> Ins("LD_REG_IMM", <<"A", immediate1>>, 1)
      [] opcode = 63 -> Ins("CCF", <<>>, 0)
      [] opcode = 64 -> Ins("LD_RR", <<"B", "B">>, 0)
      [] opcode = 65 -> Ins("LD_RR", <<"B", "C">>, 0)
      [] opcode = 66 -> Ins("LD_RR", <<"B", "D">>, 0)
      [] opcode = 67 -> Ins("LD_RR", <<"B", "E">>, 0)
      [] opcode = 68 -> Ins("LD_RR", <<"B", "H">>, 0)
      [] opcode = 69 -> Ins("LD_RR", <<"B", "L">>, 0)
      [] opcode = 70 -> Ins("LD_REG_MEM", <<"B">>, 0)
      [] opcode = 71 -> Ins("LD_RR", <<"B", "A">>, 0)
      [] opcode = 72 -> Ins("LD_RR", <<"C", "B">>, 0)
      [] opcode = 73 -> Ins("LD_RR", <<"C", "C">>, 0)
      [] opcode = 74 -> Ins("LD_RR", <<"C", "D">>, 0)
      [] opcode = 75 -> Ins("LD_RR", <<"C", "E">>, 0)
      [] opcode = 76 -> Ins("LD_RR", <<"C", "H">>, 0)
      [] opcode = 77 -> Ins("LD_RR", <<"C", "L">>, 0)
      [] opcode = 78 -> Ins("LD_REG_MEM", <<"C">>, 0)
      [] opcode = 79 -> Ins("LD_RR", <<"C", "A">>, 0)
      [] opcode = 80 -> Ins("LD_RR", <<"D", "B">>, 0)
      [] opcode = 81 -> Ins("LD_RR", <<"D", "C">>, 0)
      [] opcode = 82 -> Ins("LD_RR", <<"D", "D">>, 0)
      [] opcode = 83 -> Ins("LD_RR", <<"D", "E">>, 0)
      [] opcode = 84 -> Ins("LD_RR", <<"D", "H">>, 0)
      [] opcode = 85 -> Ins("LD_RR", <<"D", "L">>, 0)
      [] opcode = 86 -> Ins("LD_REG_MEM", <<"D">>, 0)
      [] opcode = 87 -> Ins("LD_RR", <<"D", "A">>, 0)
      [] opcode = 88 -> Ins("LD_RR", <<"E", "B">>, 0)
      [] opcode = 89 -> Ins("LD_RR", <<"E", "C">>, 0)
      [] opcode = 90 -> Ins("LD_RR", <<"E", "D">>, 0)
      [] opcode = 91 -> Ins("LD_RR", <<"E", "E">>, 0)
      [] opcode = 92 -> Ins("LD_RR", <<"E", "H">>, 0)
      [] opcode = 93 -> Ins("LD_RR", <<"E", "L">>, 0)
      [] opcode = 94 -> Ins("LD_REG_MEM", <<"E">>, 0)
      [] opcode = 95 -> Ins("LD_RR", <<"E", "A">>, 0)
      [] opcode = 96 -> Ins("LD_RR", <<"H", "B">>, 0)
      [] opcode = 97 -> Ins("LD_RR", <<"H", "C">>, 0)
      [] opcode = 98 -> Ins("LD_RR", <<"H", "D">>, 0)
      [] opcode = 99 -> Ins("LD_RR", <<"H", "E">>, 0)
      [] opcode = 100 -> Ins("LD_RR", <<"H", "H">>, 0)
      [] opcode = 101 -> Ins("LD_RR", <<"H", "L">>, 0)
      [] opcode = 102 -> Ins("LD_REG_MEM", <<"H">>, 0)
      [] opcode = 103 -> Ins("LD_RR", <<"H", "A">>, 0)
      [] opcode = 104 -> Ins("LD_RR", <<"L", "B">>, 0)
      [] opcode = 105 -> Ins("LD_RR", <<"L", "C">>, 0)
      [] opcode = 106 -> Ins("LD_RR", <<"L", "D">>, 0)
      [] opcode = 107 -> Ins("LD_RR", <<"L", "E">>, 0)
      [] opcode = 108 -> Ins("LD_RR", <<"L", "H">>, 0)
      [] opcode = 109 -> Ins("LD_RR", <<"L", "L">>, 0)
      [] opcode = 110 -> Ins("LD_REG_MEM", <<"L">>, 0)
      [] opcode = 111 -> Ins("LD_RR", <<"L", "A">>, 0)
      [] opcode = 112 -> Ins("LD_MEM_REG", <<"B">>, 0)
      [] opcode = 113 -> Ins("LD_MEM_REG", <<"C">>, 0)
      [] opcode = 114 -> Ins("LD_MEM_REG", <<"D">>, 0)
      [] opcode = 115 -> Ins("LD_MEM_REG", <<"E">>, 0)
      [] opcode = 116 -> Ins("LD_MEM_REG", <<"H">>, 0)
      [] opcode = 117 -> Ins("LD_MEM_REG", <<"L">>, 0)
      [] opcode = 118 -> Unimplemented
      [] opcode = 119 -> Ins("LD_MEM_REG", <<"A">>, 0)
      [] opcode = 120 -> Ins("LD_RR", <<"A", "B">>, 0)
      [] opcode = 121 -> Ins("LD_RR", <<"A", "C">>, 0)
      [] opcode = 122 -> Ins("LD_RR", <<"A", "D">>, 0)
      [] opcode = 123 -> Ins("LD_RR", <<"A", "E">>, 0)
      [] opcode = 124 -> Ins("LD_RR", <<"A", "H">>, 0)
      [] opcode = 125 -> Ins("LD_RR", <<"A", "L">>, 0)
      [] opcode = 126 -> Ins("LD_REG_MEM", <<"A">>, 0)
      [] opcode = 127 -> Ins("LD_RR", <<"A", "A">>, 0)
      [] opcode = 128 -> Ins("ADD", <<"B">>, 0)
      [] opcode = 129 -> Ins("ADD", <<"C">>, 0)
      [] opcode = 130 -> Ins("ADD", <<"D">>, 0)
      [] opcode = 131 -> Ins("ADD", <<"E">>, 0)
      [] opcode = 132 -> Ins("ADD", <<"H">>, 0)
      [] opcode = 133 -> Ins("ADD", <<"L">>, 0)
      [] opcode = 134 -> Ins("ADD_MEM", <<>>, 0)
      [] opcode = 135 -> Ins("ADD", <<"A">>, 0)
      [] opcode = 136 -> Ins("ADC", <<"B">>, 0)
      [] opcode = 137 -> Ins("ADC", <<"C">>, 0)
      [] opcode = 138 -> Ins("ADC", <<"D">>, 0)
      [] opcode = 139 -> Ins("ADC", <<"E">>, 0)
      [] opcode = 140 -> Ins("ADC", <<"H">>, 0)
      [] opcode = 141 -> Ins("ADC", <<"L">>, 0)
      [] opcode = 142 -> Ins("ADC_MEM", <<>>, 0)
      [] opcode = 143 -> Ins("ADC", <<"A">>, 0)
      [] opcode = 144 -> Ins("SUB", <<"B">>, 0)
      [] opcode = 145 -> Ins("SUB", <<"C">>, 0)
      [] opcode = 146 -> Ins("SUB", <<"D">>, 0)
      [] opcode = 147 -> Ins("SUB", <<"E">>, 0)
      [] opcode = 148 -> Ins("SUB", <<"H">>, 0)
      [] opcode = 149 -> Ins("SUB", <<"L">>, 0)
      [] opcode = 150 -> Ins("SUB_MEM", <<>>, 0)
      [] opcode = 151 -> Ins("SUB", <<"A">>, 0)
      [] opcode = 152 -> Ins("SBC", <<"B">>, 0)
      [] opcode = 153 -> Ins("SBC", <<"C">>, 0)
      [] opcode = 154 -> Ins("SBC", <<"D">>, 0)
      [] opcode = 155 -> Ins("SBC", <<"E">>, 0)
      [] opcode = 156 -> Ins("SBC", <<"H">>, 0)
      [] opcode = 157 -> Ins("SBC", <<"L">>, 0)
      [] opcode = 158 -> Ins("SBC_MEM", <<>>, 0)
      [] opcode = 159 -> Ins("SBC", <<"A">>, 0)
      [] opcode = 160 -> Ins("AND", <<"B">>, 0)
      [] opcode = 161 -> Ins("AND", <<"C">>, 0)
      [] opcode = 162 -> Ins("AND", <<"D">>, 0)
      [] opcode = 163 -> Ins("AND", <<"E">>, 0)
      [] opcode = 164 -> Ins("AND", <<"H">>, 0)
      [] opcode = 165 -> Ins("AND", <<"L">>, 0)
      [] opcode = 166 -> Ins("AND_MEM", <<>>, 0)
      [] opcode = 167 -> Ins("AND", <<"A">>, 0)
      [] opcode = 168 -> Ins("XOR", <<"B">>, 0)
      [] opcode = 169 -> Ins("XOR", <<"C">>, 0)
      [] opcode = 170 -> Ins("XOR", <<"D">>, 0)
      [] opcode = 171 -> Ins("XOR", <<"E">>, 0)
      [] opcode = 172 -> Ins("XOR", <<"H">>, 0)
      [] opcode = 173 -> Ins("XOR", <<"L">>, 0)
      [] opcode = 174 -> Ins("XOR_MEM", <<>>, 0)
      [] opcode = 175 -> Ins("XOR", <<"A">>, 0)
      [] opcode = 176 -> Ins("OR", <<"B">>, 0)
      [] opcode = 177 -> Ins("OR", <<"C">>, 0)
      [] opcode = 178 -> Ins("OR", <<"D">>, 0)
      [] opcode = 179 -> Ins("OR", <<"E">>, 0)
      [] opcode = 180 -> Ins("OR", <<"H">>, 0)
      [] opcode = 181 -> Ins("OR", <<"L">>, 0)
      [] opcode = 182 -> Ins("OR_MEM", <<>>, 0)
      [] opcode = 183 -> Ins("OR", <<"A">>, 0)
      [] opcode = 184 -> Ins("CP", <<"B">>, 0)
      [] opcode = 185 -> Ins("CP", <<"C">>, 0)
      [] opcode = 186 -> Ins("CP", <<"D">>, 0)
      [] opcode = 187 -> Ins("CP", <<"E">>, 0)
      [] opcode = 188 -> Ins("CP", <<"H">>, 0)
      [] opcode = 189 -> Ins("CP", <<"L">>, 0)
      [] opcode = 190 -> Ins("CP_MEM", <<>>, 0)
      [] opcode = 191 -> Ins("CP", <<"A">>, 0)
      [] opcode = 192 -> Ins("RET_N", <<FALSE, TRUE>>, 0)
      [] opcode = 193 -> Ins("POP", <<"B", "C">>, 0)
      [] opcode = 194 -> Ins("JP", <<FALSE, TRUE, TRUE, immediate_16>>, 2)
      [] opcode = 195 -> Ins("JP", <<FALSE, FALSE, FALSE, immediate_16>>, 2)
      [] opcode = 196 -> Ins("CALL", <<immediate_16, FALSE, TRUE, TRUE>>, 2)
      [] opcode = 197 -> Ins("PUSH", <<"B", "C">>, 0)
      [] opcode = 198 -> Ins("ADD_IMM", <<immediate1>>, 1)
      [] opcode = 199 -> Ins("RST", <<0>>, 0)
      [] opcode = 200 -> Ins("RET", <<FALSE, TRUE, FALSE>>, 0)
      [] opcode = 201 -> Ins("RET", <<FALSE, FALSE, FALSE>>, 0)
      [] opcode = 202 -> Ins("JP", <<FALSE, TRUE, FALSE, immediate_16>>, 2)
      [] opcode = 203 -> Unimplemented
      [] opcode = 204 -> Ins("CALL", <<immediate_16, FALSE, TRUE, FALSE>>, 2)
      [] opcode = 205 -> Ins("CALL", <<immediate_16, FALSE, FALSE, FALSE>>, 2)
      [] opcode = 206 -> Ins("ADC_IMM", <<immediate1>>, 1)
      [] opcode = 207 -> Ins("RST", <<8>>, 0)
      [] opcode = 208 -> Ins("RET_N", <<TRUE, FALSE>>, 0)
      [] opcode = 209 -> Ins("POP", <<"D", "E">>, 0)
      [] opcode = 210 -> Ins("JP", <<TRUE, FALSE, TRUE, immediate_16>>, 2)
      [] opcode = 211 -> Unimplemented
      [] opcode = 212 -> Ins("CALL", <<immediate_16, TRUE, FALSE, TRUE>>, 2)
      [] opcode = 213 -> Ins("PUSH", <<"D", "E">>, 0)
      [] opcode = 214 -> Ins("SUB_IMM", <<immediate1>>, 1)
      [] opcode = 215 -> Ins("RST", <<16>>, 0)
      [] opcode = 216 -> Ins("RET", <<TRUE, FALSE, FALSE>>, 0)
      [] opcode = 217 -> Ins("RET", <<FALSE, FALSE, TRUE>>, 0)
      [] opcode = 218 -> Ins("JP", <<TRUE, FALSE, FALSE, immediate_16>>, 2)
      [] opcode = 219 -> Unimplemented
      [] opcode = 220 -> Ins("CALL", <<immediate_16, TRUE, FALSE, FALSE>>, 2)
      [] opcode = 221 -> Unimplemented
      [] opcode = 222 -> Ins("SBC_IMM", <<immediate1>>, 1)
      [] opcode = 223 -> Ins("RST", <<24>>, 0)
      [] opcode = 224 -> Ins("LD_IMM_8", <<immediate1, FALSE>>, 1)
      [] opcode = 225 -> Ins("POP", <<"B", "C">>, 0)
      [] opcode = 226 -> Ins("LD_AC", <<FALSE>>, 0)
      [] opcode = 227 -> Unimplemented
      [] opcode = 228 -> Unimplemented
      [] opcode = 229 -> Ins("PUSH", <<"B", "C">>, 0)
      [] opcode = 230 -> Ins("AND_IMM", <<immediate1>>, 1)
      [] opcode = 231 -> Ins("RST", <<32>>, 0)
      [] opcode = 232 -> Ins("INC_SP", <<as_i8(immediate1)>>, 1)
      [] opcode = 233 -> Ins("JP_HL", <<>>, 0)
      [] opcode = 234 -> Ins("LD_IMM_16", <<immediate_16, FALSE>>, 2)
      [] opcode = 235 -> Unimplemented
      [] opcode = 236 -> Unimplemented
      [] opcode = 237 -> Unimplemented
      [] opcode = 238 -> Ins("XOR_IMM", <<immediate1>>, 1)
      [] opcode = 239 -> Ins("RST", <<40>>, 0)
      [] opcode = 240 -> Ins("LD_IMM_8", <<immediate1, TRUE>>, 1)
      [] opcode = 241 -> Ins("POP", <<"A", "B">>, 0)
      [] opcode = 242 -> Ins("LD_AC", <<TRUE>>, 0)
      [] opcode = 243 -> Ins("DI", <<>>, 0)
      [] opcode = 244 -> Unimplemented
      [] opcode = 245 -> Ins("PUSH", <<"A", "B">>, 0)
      [] opcode = 246 -> Ins("OR_IMM", <<immediate1>>, 1)
      [] opcode = 247 -> Ins("RST", <<48>>, 0)
      [] opcode = 248 -> Ins("LD_HL_SP", <<as_i8(immediate1)>>, 1)
      [] opcode = 249 -> Ins("LD_SP_HL", <<>>, 0)
      [] opcode = 250 -> Ins("LD_IMM_16", <<immediate_16, FALSE>>, 2)
      [] opcode = 251 -> Ins("EI", <<>>, 0)
      [] opcode = 252 -> Unimplemented
      [] opcode = 253 -> Unimplemented
      [] opcode = 254 -> Ins("CP_IMM", <<immediate1>>, 1)
      [] opcode = 255 -> Ins("RST", <<56>>, 0)

\* CPU::decode_instruction: its two reads of the bytes after the opcode, made
\* for every opcode, are in bounds
DecodePanics(s) ==
    RamPanics(s.registers.pc + 1) \/ RamPanics(s.registers.pc + 2)

\* CPU::decode_instruction
decode_instruction(s, opcode) ==
    LET pc == s.registers.pc
        immediate1 == read(s.ram, pc + 1)
        immediate2 == read(s.ram, pc + 2)
        immediate_16 == BitOr(immediate2 * 256, immediate1)
    IN  decode_arm(opcode, immediate1, immediate_16)

\* CPU::get_instruction_info: <<size, cycles>>, the first matching arm
get_instruction_info(opcode) ==
    CASE opcode \in {6, 14, 22, 30, 38, 46, 54, 62,
                     198, 206, 214, 222, 230, 238, 246, 254,
                     24, 32, 40, 48, 56} -> <<2, 8>>
      [] opcode \in {1, 17, 33, 49, 194, 195, 196, 202, 204, 205,
                     210, 212, 218, 220, 226, 234, 242, 250} -> <<3, 12>>
      [] opcode \in {192, 200, 208, 216} -> <<1, 8>>
      [] opcode = 8 -> <<3, 20>>
      [] opcode = 232 -> <<2, 16>>
      [] opcode = 248 -> <<2, 12>>
      [] opcode = 249 -> <<1, 8>>
      [] OTHER -> <<1, 4>>

\* a step that does not add its cycles to the counter when the instruction
\* has written the program counter
CPU_step_jump_uncounted(s) ==
    LET original_pc == s.registers.pc
        opcode == read(s.ram, original_pc)
        info == get_instruction_info(opcode)
        instruction == decode_instruction(s, opcode)
        s1 == execute(s, instruction)
    IN  IF RamPanics(original_pc) \/ DecodePanics(s) THEN Panic(s)
        ELSE IF instruction.op = Unimplemented.op THEN Panic(s)
        ELSE IF s1.panicked THEN s1
        ELSE IF s1.registers.pc = original_pc
             THEN [set_reg(s1, "pc", original_pc + info[1]) EXCEPT
                      !.clock_cycles = @ + info[2]]
        ELSE s1

\* CPU::step: the state after it, and the cycles it returns
CPU_step(s) ==
    LET original_pc == s.registers.pc
        opcode == read(s.ram, original_pc)
        info == get_instruction_info(opcode)
        instruction == decode_instruction(s, opcode)
        s1 == execute(s, instruction)
        s2 == IF s1.registers.pc = original_pc
              THEN set_reg(s1, "pc", original_pc + info[1])
              ELSE s1
    IN  IF RamPanics(original_pc) \/ DecodePanics(s) THEN Panic(s)
        ELSE IF instruction.op = Unimplemented.op THEN Panic(s)
        ELSE IF s1.panicked THEN s1
        ELSE [s2 EXCEPT !.clock_cycles = @ + info[2]]

\* enum Interrupt, enum InterruptHandlers
Interrupt == [VBLANK |-> 1, LCD_STAT |-> 2, TIMER |-> 4, SERIAL |-> 8, JOYPAD |-> 16]
InterruptHandlers == [VBLANK |-> 64, LCD_STAT |-> 72, TIMER |-> 80, SERIAL |-> 88, JOYPAD |-> 96]

\* CPU::get_interrupt_vector
get_interrupt_vector(interrupt_flag) ==
    IF BitAnd(interrupt_flag, 1) # 0 THEN "VBLANK"
    ELSE IF BitAnd(interrupt_flag, 2) # 0 THEN "LCD_STAT"
    ELSE IF BitAnd(interrupt_flag, 4) # 0 THEN "TIMER"
    ELSE IF BitAnd(interrupt_flag, 8) # 0 THEN "SERIAL"
    ELSE "JOYPAD"

\* CPU::get_interrupt_handler
get_interrupt_handler(interrupt_vector) == InterruptHandlers[interrupt_vector]

\* CPU::handle_interrupts. Its read of INTERRUPT_ENABLE_ADDRESS indexes
\* RAM.memory at 0xFFFF.
handle_interrupts(s) ==
    LET interrupt_flag == read(s.ram, INTERRUPT_FLAGS_ADDRESS)
        interrupt_enable == read(s.ram, INTERRUPT_ENABLE_ADDRESS)
        s1 == [s EXCEPT !.previous_ime = s.interrupt_master_enable,
                        !.interrupt_master_enable = FALSE]
        sp == s.registers.sp
        s2 == push_16bit(s1, sp, s1.registers.pc)
        interrupt_vector == get_interrupt_vector(interrupt_flag)
        interrupt_handler == get_interrupt_handler(interrupt_vector)
        s3 == [set_reg(s2, "sp", sp - 2) EXCEPT
                  !.ram = write(@, INTERRUPT_FLAGS_ADDRESS,
                                BitAnd(interrupt_flag, 255 - Interrupt[interrupt_vector]))]
    IN  IF ~s.interrupt_master_enable THEN s
        ELSE IF ~(BitAnd(interrupt_flag, 31) # 0) THEN Panic(s)
        ELSE IF RamPanics(INTERRUPT_ENABLE_ADDRESS) THEN Panic(s)
        ELSE IF BitAnd(interrupt_flag, interrupt_enable) = 0 THEN s
        ELSE IF s2.panicked THEN s2
        ELSE set_reg(s3, "pc", interrupt_handler)

-----------------------------------------------------------------------------
(* The program's state as the values the operators take, and back.         *)

\* the CPU, with the RAM it borrows
CPUState ==
    [registers |-> registers,
     ram |-> ram,
     interrupt_master_enable |-> interrupt_master_enable,
     previous_ime |-> previous_ime,
     clock_cycles |-> clock_cycles,
     panicked |-> panicked,
     overflow_checks |-> overflow_checks]

\* the GPU, with the RAM it borrows
GPUState ==
    [ram |-> ram,
     vram |-> vram,
     oam |-> oam,
     clock |-> clock,
     mode |-> mode,
     current_scanline |-> current_scanline,
     screen_buffer |-> screen_buffer,
     panicked |-> panicked,
     overflow_checks |-> overflow_checks]

-----------------------------------------------------------------------------
(* Timer                                                                    *)

\* Timer::new()
Timer_new ==
    [div |-> 0, tima |-> 0, tma |-> 0, tac |-> 0, clock_cycles |-> 0,
     internal_div |-> 0, internal_tima |-> 0]

\* the addresses of the timer's registers
DIV_ADDRESS == 65284
TIMA_ADDRESS == 65285
TMA_ADDRESS == 65286
TAC_ADDRESS == 65287

\* read_register and write_register panic on any other address
TimerPanics(address) ==
    address \notin {DIV_ADDRESS, TIMA_ADDRESS, TMA_ADDRESS, TAC_ADDRESS}

\* timer.read_register(address), for an address that does not panic
Timer_read_register(t, address) ==
    CASE address = DIV_ADDRESS -> t.div
      [] address = TIMA_ADDRESS -> t.tima
      [] address = TMA_ADDRESS -> t.tma
      [] address = TAC_ADDRESS -> t.tac

\* timer.write_register(address, value), for an address that does not panic
Timer_write_register(t, address, value) ==
    CASE address = DIV_ADDRESS -> [t EXCEPT !.div = value]
      [] address = TIMA_ADDRESS -> [t EXCEPT !.tima = value]
      [] address = TMA_ADDRESS -> [t EXCEPT !.tma = value]
      [] address = TAC_ADDRESS -> [t EXCEPT !.tac = value]

\* `ticks as u16`: the low 16 bits of a u32
ticks_as_u16(ticks) == ticks % 65536

\* the ticks of one TIMA period selected by TAC bits 1-0
tima_ticks(tac) ==
    CASE BitAnd(tac, 3) = 0 -> 1024
      [] BitAnd(tac, 3) = 1 -> 16
      [] BitAnd(tac, 3) = 2 -> 64
      [] BitAnd(tac, 3) = 3 -> 256

\* one pass of `while internal_div >= 256 { div = div.wrapping_add(1);
\* internal_div -= 256 }`: the test and the body
div_iteration(t) ==
    IF t.internal_div >= 256
    THEN [t EXCEPT !.div = (@ + 1) % 256, !.internal_div = @ - 256]
    ELSE t

\* n passes of that loop, the second half after the first; the loop is over
\* once its test fails
RECURSIVE div_loop(_, _)
div_loop(t, n) ==
    IF n = 0 \/ t.internal_div < 256 THEN t
    ELSE IF n = 1 THEN div_iteration(t)
    ELSE div_loop(div_loop(t, n \div 2), n - (n \div 2))

\* one pass of `while internal_tima >= tima_ticks { ... }` over the timer and
\* interrupt_triggered: the test and the body
tima_iteration(r, period) ==
    IF r.timer.internal_tima >= period
    THEN LET tima == (r.timer.tima + 1) % 256
         IN  [timer |-> [r.timer EXCEPT
                            !.tima = IF tima = 0 THEN r.timer.tma ELSE tima,
                            !.internal_tima = @ - period],
              interrupt_triggered |-> r.interrupt_triggered \/ tima = 0]
    ELSE r

\* n passes of that loop, the second half after the first; the loop is over
\* once its test fails
RECURSIVE tima_loop(_, _, _)
tima_loop(r, period, n) ==
    IF n = 0 \/ r.timer.internal_tima < period THEN r
    ELSE IF n = 1 THEN tima_iteration(r, period)
    ELSE tima_loop(tima_loop(r, period, n \div 2), period, n - (n \div 2))

\* timer.do_cycle(ticks): the timer afterwards and the value returned. Each
\* loop is run for one pass more than it subtracts its period, so that its
\* last pass is the one whose test fails
Timer_do_cycle(t, ticks) ==
    LET t0 == [t EXCEPT !.internal_div = (@ + ticks_as_u16(ticks)) % 65536]
        t1 == div_loop(t0, (t0.internal_div \div 256) + 1)
        t2 == [t1 EXCEPT !.internal_tima = (@ + ticks_as_u16(ticks)) % 65536]
        period == tima_ticks(t1.tac)
    IN  IF BitAnd(t1.tac, 4) # 0
        THEN tima_loop([timer |-> t2, interrupt_triggered |-> FALSE],
                       period, (t2.internal_tima \div period) + 1)
        ELSE [timer |-> t1, interrupt_triggered |-> FALSE]

\* the fields of the CPU, of the GPU alone, and of the build
cpu_vars == <<registers, interrupt_master_enable, previous_ime, clock_cycles>>
gpu_vars == <<vram, oam, clock, mode, current_scanline, screen_buffer>>

\* the CPU and its RAM become s
SetCPU(s) ==
    /\ registers' = s.registers
    /\ ram' = s.ram
    /\ interrupt_master_enable' = s.interrupt_master_enable
    /\ previous_ime' = s.previous_ime
    /\ clock_cycles' = s.clock_cycles
    /\ panicked' = s.panicked
    /\ UNCHANGED <<gpu_vars, overflow_checks, timer>>

\* the GPU and its RAM become g
SetGPU(g) ==
    /\ ram' = g.ram
    /\ vram' = g.vram
    /\ oam' = g.oam
    /\ clock' = g.clock
    /\ mode' = g.mode
    /\ current_scanline' = g.current_scanline
    /\ screen_buffer' = g.screen_buffer
    /\ panicked' = g.panicked
    /\ UNCHANGED <<cpu_vars, overflow_checks, timer>>

\* the record of an operation: its name, the address and the value it was
\* given or fetched, and what it returned (0 when it returns nothing or panics)
Op(op, address, value, result) ==
    [op |-> op, address |-> address, value |-> value, result |-> result]

-----------------------------------------------------------------------------
(* Operations                                                               *)

\* ram.read(address)
RamRead(address) ==
    /\ ~panicked
    /\ IF RamPanics(address)
       THEN panicked' = TRUE /\ last_op' = Op("ram_read", address, 0, 0)
       ELSE panicked' = FALSE /\ last_op' = Op("ram_read", address, 0, read(ram, address))
    /\ UNCHANGED <<ram, cpu_vars, gpu_vars, overflow_checks, steps, timer>>

\* ram.write(address, value)
RamWrite(address, value) ==
    /\ ~panicked
    /\ IF RamPanics(address)
       THEN panicked' = TRUE /\ ram' = ram
       ELSE panicked' = FALSE /\ ram' = write(ram, address, value)
    /\ last_op' = Op("ram_write", address, value, 0)
    /\ UNCHANGED <<cpu_vars, gpu_vars, overflow_checks, steps, timer>>

\* gpu.step(cycles)
GpuStep(cycles) ==
    /\ ~panicked
    /\ SetGPU(GPU_step(GPUState, cycles))
    /\ last_op' = Op("gpu_step", 0, cycles, 0)
    /\ UNCHANGED steps

\* gpu.read_vram(address)
ReadVram(address) ==
    /\ ~panicked
    /\ IF VramAssertFails(address)
       THEN panicked' = TRUE /\ last_op' = Op("read_vram", address, 0, 0)
       ELSE panicked' = FALSE
            /\ last_op' = Op("read_vram", address, 0, read_vram(GPUState, address))
    /\ UNCHANGED <<ram, cpu_vars, gpu_vars, overflow_checks, steps, timer>>

\* gpu.write_vram(address, value)
WriteVram(address, value) ==
    /\ ~panicked
    /\ SetGPU(write_vram(GPUState, address, value))
    /\ last_op' = Op("write_vram", address, value, 0)
    /\ UNCHANGED steps

\* gpu.read_oam(address)
ReadOam(address) ==
    /\ ~panicked
    /\ IF OamPanics(GPUState, address)
       THEN panicked' = TRUE /\ last_op' = Op("read_oam", address, 0, 0)
       ELSE panicked' = FALSE
            /\ last_op' = Op("read_oam", address, 0, read_oam(GPUState, address))
    /\ UNCHANGED <<ram, cpu_vars, gpu_vars, overflow_checks, steps, timer>>

\* gpu.write_oam(address, value)
WriteOam(address, value) ==
    /\ ~panicked
    /\ SetGPU(write_oam(GPUState, address, value))
    /\ last_op' = Op("write_oam", address, value, 0)
    /\ UNCHANGED steps

-----------------------------------------------------------------------------
(* Specifications                                                           *)

\* every variable, from a CPU value c and a GPU value g built over the same
\* RAM; the GPU is constructed last, so the RAM is the one GPU::new wrote to
StartStateWith(c, g, t) ==
    /\ ram = g.ram
    /\ registers = c.registers
    /\ interrupt_master_enable = c.interrupt_master_enable
    /\ previous_ime = c.previous_ime
    /\ clock_cycles = c.clock_cycles
    /\ vram = g.vram
    /\ oam = g.oam
    /\ clock = g.clock
    /\ mode = g.mode
    /\ current_scanline = g.current_scanline
    /\ screen_buffer = g.screen_buffer
    /\ panicked = FALSE
    /\ overflow_checks = g.overflow_checks
    /\ steps = 0
    /\ timer = t
    /\ last_op = Op("new", 0, 0, 0)

\* the same with the timer Timer::new() returns
StartState(c, g) == StartStateWith(c, g, Timer_new)

\* values of the interrupt-flags register when the PPU is constructed: the
\* RAM it is given is public and may have been written before
IFValues == {0, 30}

\* values of the LY-compare register when the PPU is constructed: the first
\* scanline and the first one of Vertical-blank
LycValues == {0, 144}

\* cycle counts fed to GPU::step: the four mode lengths and a count below
\* every one of them
CycleInputs == {40, CYCLES_OAM, CYCLES_VRAM, CYCLES_HBLANK, CYCLES_VBLANK}

\* a newly constructed PPU
InitPPU ==
    \E if0 \in IFValues, lyc \in LycValues, checks \in BOOLEAN :
        LET ram0 == write(write(RAM_new, INTERRUPT_FLAGS_ADDRESS, if0),
                          LYC_ADDRESS, lyc)
        IN  StartState(CPU_new(ram0, checks), GPU_new(ram0, checks))

NextPPU == \E cycles \in CycleInputs : GpuStep(cycles)

\* the PPU alone, stepped with any of the cycle counts
SpecPPU == InitPPU /\ [][NextPPU]_vars

\* the interrupt-flags register
interrupt_flags == read(ram, INTERRUPT_FLAGS_ADDRESS)

\* the cycle count at which step_set_mode leaves mode m
threshold(m) ==
    CASE m = "OAM" -> CYCLES_OAM
      [] m = "VRAM" -> CYCLES_VRAM
      [] m = "HBLANK" -> CYCLES_HBLANK
      [] m = "VBLANK" -> CYCLES_VBLANK

\* C4: from OAM-search with accumulator 0 at a scanline n < 143, a step of 80
\* cycles gives Pixel-transfer, from there a step of 172 gives
\* Horizontal-blank, from there a step of 204 gives OAM-search at scanline
\* n + 1, each with the accumulator back at 0; and a step that leaves the
\* accumulated cycles below the mode's threshold changes neither the mode nor
\* the scanline.
C4_VisibleScanlineCycle ==
    [][(last_op'.op = "gpu_step" /\ current_scanline < 143) =>
          LET cycles == last_op'.value
          IN  /\ (mode = "OAM" /\ clock = 0 /\ cycles = 80) =>
                    (mode' = "VRAM" /\ clock' = 0
                     /\ current_scanline' = current_scanline)
              /\ (mode = "VRAM" /\ clock = 0 /\ cycles = 172) =>
                    (mode' = "HBLANK" /\ clock' = 0
                     /\ current_scanline' = current_scanline)
              /\ (mode = "HBLANK" /\ clock = 0 /\ cycles = 204) =>
                    (mode' = "OAM" /\ clock' = 0
                     /\ current_scanline' = current_scanline + 1)
              /\ (clock + cycles < threshold(mode)) =>
                    (mode' = mode /\ current_scanline' = current_scanline
                     /\ clock' = clock + cycles)]_vars

\* C4 happens: a step of 204 cycles has just ended Horizontal-blank of
\* scanline 0
C4_Witness ==
    /\ last_op = Op("gpu_step", 0, 204, 0)
    /\ mode = "OAM" /\ current_scanline = 1 /\ clock = 0

\* C5: a step that leaves Horizontal-blank with the scanline counter at 144
\* enters Vertical-blank and sets bit 0 of the interrupt-flags register,
\* keeping its other bits; one that leaves it with the counter below 144
\* enters OAM-search and does not modify the register.
C5_VBlankRequest ==
    [][(last_op'.op = "gpu_step" /\ mode = "HBLANK"
        /\ current_scanline' = current_scanline + 1) =>
          IF current_scanline' = 144
          THEN /\ mode' = "VBLANK"
               /\ interrupt_flags' % 2 = 1
               /\ interrupt_flags' \div 2 = interrupt_flags \div 2
          ELSE /\ current_scanline' < 144
               /\ mode' = "OAM"
               /\ interrupt_flags' = interrupt_flags]_vars

\* C5 happens: Vertical-blank has just been entered with other requests
\* pending
C5_Witness ==
    /\ last_op.op = "gpu_step"
    /\ mode = "VBLANK" /\ current_scanline = 144 /\ clock = 0
    /\ interrupt_flags = 31

\* C6: from the Vertical-blank entered at the end of scanline 143 (counter
\* 144, accumulator 0), a step of 4560 cycles returns to OAM-search with the
\* scanline counter 0.
C6_SingleVBlankBlock ==
    [][(last_op'.op = "gpu_step" /\ last_op'.value = CYCLES_VBLANK
        /\ mode = "VBLANK" /\ current_scanline = SCANLINES_DISPLAY /\ clock = 0) =>
          (mode' = "OAM" /\ current_scanline' = 0)]_vars

\* C7: the scanline counter is below 154; the mode is OAM-search,
\* Pixel-transfer or Horizontal-blank only at a counter of at most 143, and
\* Vertical-blank only at a counter in 144..153.
C7_ScanlineRange ==
    /\ current_scanline < 154
    /\ mode \in {"OAM", "VRAM", "HBLANK"} => current_scanline <= 143
    /\ mode = "VBLANK" => current_scanline \in 144..153

\* C7 happens: the last line of Vertical-blank, and the frame boundary
C7_Witness ==
    /\ last_op.op = "gpu_step"
    /\ mode = "VBLANK" /\ current_scanline = 153
    /\ clock >= CYCLES_VBLANK - 40

\* addresses and bytes given to the reads and writes of the video memories:
\* the first and the last byte of VRAM, the first byte of OAM
VramAddresses == {VRAM_ADDRESS, VRAM_ADDRESS + VRAM_SIZE - 1}
OamAddresses == {OAM_ADDRESS}
ByteValues == {18, 52}

\* a cycle count that ends whatever mode the PPU is in
AccessCycles == {CYCLES_VBLANK}

\* a newly constructed PPU over a new RAM
InitAccess ==
    \E checks \in BOOLEAN :
        StartState(CPU_new(RAM_new, checks), GPU_new(RAM_new, checks))

NextAccess ==
    \/ \E cycles \in AccessCycles : GpuStep(cycles)
    \/ \E address \in VramAddresses : ReadVram(address)
    \/ \E address \in VramAddresses, value \in ByteValues : WriteVram(address, value)
    \/ \E address \in OamAddresses : ReadOam(address)
    \/ \E address \in OamAddresses, value \in ByteValues : WriteOam(address, value)

\* the PPU's video memories read and written from outside in every mode
SpecAccess == InitAccess /\ [][NextAccess]_vars

\* C8: in OAM-search and Pixel-transfer a read of VRAM or OAM returns 0xFF
\* and a write leaves the memory as it was (so the stored byte is what a later
\* read finds); in Horizontal-blank and Vertical-blank a read returns the
\* stored byte and a write stores its value, at that address only.
C8_ModeGate ==
    [][LET blocked == mode \in {"OAM", "VRAM"}
           address == last_op'.address
       IN  /\ last_op'.op = "read_vram" =>
                 last_op'.result = IF blocked THEN 255
                                   ELSE Load(vram, address - VRAM_ADDRESS)
           /\ last_op'.op = "read_oam" =>
                 last_op'.result = IF blocked THEN 255
                                   ELSE Load(oam, address - OAM_ADDRESS)
           /\ last_op'.op = "write_vram" =>
                 IF blocked THEN vram' = vram
                 ELSE vram' = Store(vram, address - VRAM_ADDRESS, last_op'.value)
           /\ last_op'.op = "write_oam" =>
                 IF blocked THEN oam' = oam
                 ELSE oam' = Store(oam, address - OAM_ADDRESS, last_op'.value)
           /\ last_op'.op \in {"read_vram", "read_oam", "write_vram", "write_oam"} =>
                 ~panicked']_vars

\* C8 happens: a write in Pixel-transfer was dropped, the byte stored in
\* an earlier blanking period is still there
C8_Witness ==
    /\ last_op.op = "write_vram" /\ mode = "VRAM"
    /\ Load(vram, last_op.address - VRAM_ADDRESS) \in ByteValues \ {last_op.value}

\* addresses and bytes given to RAM.read and RAM.write: the first byte, the
\* interrupt-flags register, the last byte of the array and the
\* interrupt-enable register
RamAddresses == {0, INTERRUPT_FLAGS_ADDRESS, RAM_SIZE - 1, INTERRUPT_ENABLE_ADDRESS}
RamValues == {0, 1, 255}

\* a new RAM, no engine constructed over it
InitRAM ==
    \E checks \in BOOLEAN :
        StartState(CPU_new(RAM_new, checks),
                   [GPU_new(RAM_new, checks) EXCEPT !.ram = RAM_new])

NextRAM ==
    \/ \E address \in RamAddresses : RamRead(address)
    \/ \E address \in RamAddresses, value \in RamValues : RamWrite(address, value)

\* the RAM alone
SpecRAM == InitRAM /\ [][NextRAM]_vars

\* C3: a read or a write of any 16-bit address completes; a read returns the
\* byte last written to its address (0 if none); a write changes the byte at
\* its address only.
C3_WholeAddressSpace ==
    [][LET address == last_op'.address
       IN  /\ last_op'.op \in {"ram_read", "ram_write"} => ~panicked'
           /\ last_op'.op = "ram_read" =>
                 (last_op'.result = Load(ram, address) /\ ram' = ram)
           /\ last_op'.op = "ram_write" =>
                 ram' = Store(ram, address, last_op'.value)]_vars

-----------------------------------------------------------------------------
(* The CPU                                                                  *)

\* the number of CPU operations (step, handle_interrupts) in a run
MaxSteps == 2

\* cpu.step(), in a run of at most bound CPU operations
CpuStepWithin(bound) ==
    /\ ~panicked
    /\ steps < bound
    /\ LET s == CPU_step(CPUState)
           pc == registers.pc
           opcode == IF RamPanics(pc) THEN 0 ELSE read(ram, pc)
       IN  /\ SetCPU(s)
           /\ last_op' = Op("cpu_step", pc, opcode,
                            IF s.panicked THEN 0 ELSE get_instruction_info(opcode)[2])
    /\ steps' = steps + 1

\* cpu.step()
CpuStep == CpuStepWithin(MaxSteps)

\* cpu.handle_interrupts()
HandleInterrupts ==
    /\ ~panicked
    /\ steps < MaxSteps
    /\ SetCPU(handle_interrupts(CPUState))
    /\ last_op' = Op("handle_interrupts", registers.pc, interrupt_flags, 0)
    /\ steps' = steps + 1

\* what the driver has put in place before the first step: the instruction
\* at the program counter (any opcode, with its two following bytes), the
\* program counter and stack pointer, the flags, the interrupt master enable
\* and the interrupt-flags register
Opcodes == 0..255
Immediate1Values == {2, 254}
Immediate2Values == {192}
PcValues == {0, 336}
SpValues == {53248}
FValues == {0, 16, 128, 144}
CpuIFValues == {0, 1, 20}

\* a newly constructed CPU over a RAM holding one instruction, with the
\* registers the driver has set
InitCPU ==
    \E opcode \in Opcodes, immediate1 \in Immediate1Values,
       immediate2 \in Immediate2Values, pc \in PcValues, sp \in SpValues,
       f \in FValues, ime \in BOOLEAN, if0 \in CpuIFValues, checks \in BOOLEAN :
        LET ram0 == write(write(write(write(RAM_new,
                        INTERRUPT_FLAGS_ADDRESS, if0),
                        pc, opcode), pc + 1, immediate1), pc + 2, immediate2)
            c == [CPU_new(ram0, checks) EXCEPT
                     !.registers = [Registers_new EXCEPT
                                       !.pc = pc, !.sp = sp, !.f = f,
                                       !.h = 192, !.a = 60, !.c = 128],
                     !.interrupt_master_enable = ime]
        IN  StartState(c, [GPU_new(ram0, checks) EXCEPT !.ram = ram0])

NextCPU == CpuStep \/ HandleInterrupts

\* the CPU alone: steps and interrupt checks in any order
SpecCPU == InitCPU /\ [][NextCPU]_vars

\* the instructions that write the program counter themselves: jumps, calls,
\* returns and restarts
ControlTransfer == {"JR", "JP", "JP_HL", "CALL", "RET", "RET_N", "RST"}

\* C1: a step that completes on an implemented opcode that is not a control
\* transfer advances the program counter by 1 plus the number of immediate
\* bytes decode reads as the opcode's operand.
C1_PcAdvancesByLength ==
    [][(last_op'.op = "cpu_step" /\ ~panicked') =>
          LET instruction == decode_instruction(CPUState, last_op'.value)
          IN  instruction.op \notin ControlTransfer =>
                 registers'.pc = registers.pc + 1 + instruction.nimm]_vars

\* the lowest set bit of a nonzero byte
lowest_bit(value) == CHOOSE b \in {1, 2, 4, 8, 16, 32, 64, 128} :
                        /\ BitAnd(value, b) # 0
                        /\ \A b2 \in {1, 2, 4, 8, 16, 32, 64, 128} :
                              BitAnd(value, b2) # 0 => b <= b2

\* C2: handle_interrupts, called with the interrupt master enable set and a
\* requested interrupt that the interrupt-enable register enables (whatever
\* byte that register is meant to hold), clears the master enable, pushes
\* the program counter (SP down by 2, low byte at SP, high byte at SP + 1),
\* clears the lowest requested bit of the interrupt-flags register and only
\* that bit, and sets the program counter to that interrupt's handler.
C2_Dispatch ==
    [][(/\ last_op'.op = "handle_interrupts"
        /\ interrupt_master_enable
        /\ \E interrupt_enable \in 0..255 :
              BitAnd(BitAnd(interrupt_flags, 31), interrupt_enable) # 0) =>
          LET bit == lowest_bit(BitAnd(interrupt_flags, 31))
              handler == CASE bit = 1 -> 64 [] bit = 2 -> 72 [] bit = 4 -> 80
                           [] bit = 8 -> 88 [] bit = 16 -> 96
          IN  /\ ~panicked'
              /\ ~interrupt_master_enable'
              /\ registers'.sp = registers.sp - 2
              /\ read(ram', registers'.sp) = registers.pc % 256
              /\ read(ram', registers'.sp + 1) = registers.pc \div 256
              /\ interrupt_flags' = interrupt_flags - bit
              /\ registers'.pc = handler]_vars

\* C10: handle_interrupts, called when it does not dispatch (the interrupt
\* master enable is clear, or it is set and no interrupt is requested),
\* completes and changes no register, no memory, neither the master enable
\* nor the saved previous one.
C10_NoDispatchNoEffect ==
    [][(/\ last_op'.op = "handle_interrupts"
        /\ (~interrupt_master_enable \/ interrupt_flags = 0)) =>
          (/\ ~panicked'
           /\ UNCHANGED <<registers, ram, interrupt_master_enable, previous_ime>>)]_vars

-----------------------------------------------------------------------------
(* The driving loop: one CPU step, whose returned cycle count is fed to the *)
(* PPU's step, in strict alternation over the same RAM.                     *)

\* the number of iterations of the driving loop in a run
MaxIterations == 40

\* the program the CPU runs: LD HL,d16 with the target address, then
\* LD (HL),d8 with the value and JR -2, which CPU::jr takes relative to its
\* own address and so returns to the store
StoreTargets == {VRAM_ADDRESS, OAM_ADDRESS}
StoreValues == {90, 165}
Program(target, value) ==
    <<33, target % 256, target \div 256, 54, value, 24, 254>>

\* RAM with the sequence bytes written from address 0
RECURSIVE Loaded(_, _, _)
Loaded(memory, bytes, at) ==
    IF bytes = <<>> THEN memory
    ELSE Loaded(write(memory, at, Head(bytes)), Tail(bytes), at + 1)

\* a newly constructed CPU and PPU over a RAM holding the program
Init ==
    \E target \in StoreTargets, value \in StoreValues, checks \in BOOLEAN :
        LET ram0 == Loaded(RAM_new, Program(target, value), 0)
        IN  StartState(CPU_new(ram0, checks), GPU_new(ram0, checks))

\* the iteration's CPU step
DriveCpu == last_op.op # "cpu_step" /\ CpuStepWithin(MaxIterations)

\* the iteration's PPU step, fed the cycles the CPU step returned
DriveGpu == last_op.op = "cpu_step" /\ GpuStep(last_op.result)

Next == DriveCpu \/ DriveGpu

\* the CPU and the PPU under the driving loop
Spec == Init /\ [][Next]_vars

\* C9: a byte that a CPU instruction stores to a VRAM or OAM address becomes
\* the byte the PPU holds for that address exactly when the PPU's mode at
\* the store is Horizontal-blank or Vertical-blank.
C9_CpuStoreGated ==
    [][(last_op'.op = "cpu_step" /\ ~panicked' /\ last_op'.value = 54) =>
          LET address == get_hl(CPUState)
              value == read(ram, registers.pc + 1)
              allowed == mode \in {"HBLANK", "VBLANK"}
          IN  /\ (VRAM_ADDRESS <= address /\ address < VRAM_ADDRESS + VRAM_SIZE) =>
                    ((Load(vram', address - VRAM_ADDRESS) = value) <=> allowed)
              /\ (OAM_ADDRESS <= address /\ address < OAM_ADDRESS + OAM_SIZE) =>
                    ((Load(oam', address - OAM_ADDRESS) = value) <=> allowed)]_vars
-----------------------------------------------------------------------------
(* Return from interrupt                                                    *)

\* the address on top of the stack, and the opcode of RETI
ReturnAddresses == {336, 4660}
RETI_OPCODE == 217

\* a newly constructed CPU whose RAM holds RETI at the program counter and
\* at the address on top of the stack, as it is inside an interrupt handler
InitRETI ==
    \E ret_addr \in ReturnAddresses, sp \in SpValues, f \in FValues,
       ime \in BOOLEAN, if0 \in CpuIFValues, checks \in BOOLEAN :
        LET pc == 64
            ram0 == write(write(write(write(write(RAM_new,
                        INTERRUPT_FLAGS_ADDRESS, if0),
                        pc, RETI_OPCODE), ret_addr, RETI_OPCODE),
                        sp, ret_addr % 256), sp + 1, ret_addr \div 256)
            c == [CPU_new(ram0, checks) EXCEPT
                     !.registers = [Registers_new EXCEPT
                                       !.pc = pc, !.sp = sp, !.f = f],
                     !.interrupt_master_enable = ime]
        IN  StartState(c, [GPU_new(ram0, checks) EXCEPT !.ram = ram0])

\* the CPU inside an interrupt handler: steps and interrupt checks
SpecRETI == InitRETI /\ [][NextCPU]_vars

\* C11: RETI (opcode 0xD9), stepped in the state a dispatch from a set
\* interrupt master enable leaves (master enable clear, its saved value set),
\* pops the address on top of the stack into the program counter, moves the
\* stack pointer up by 2 and sets the interrupt master enable again.
C11_ReturnFromInterrupt ==
    [][(/\ last_op'.op = "cpu_step"
        /\ last_op'.value = RETI_OPCODE
        /\ ~interrupt_master_enable
        /\ previous_ime) =>
          /\ ~panicked'
          /\ registers'.pc = Load(ram, registers.sp + 1) * 256
                             + Load(ram, registers.sp)
          /\ registers'.sp = registers.sp + 2
          /\ interrupt_master_enable']_vars
-----------------------------------------------------------------------------
(* Unimplemented opcodes                                                    *)

\* the opcodes whose decode arm is panic!("... not implemented")
UnimplementedOpcodes ==
    {16, 118, 203, 211, 219, 221, 227, 228, 235, 236, 237, 244, 252, 253}

\* C12: a step on an unimplemented opcode stops the program in a fatal state
\* and changes no register, no byte of memory, neither interrupt master
\* enable nor its saved value, and not the cycle counter.
C12_UnimplementedHalts ==
    [][(last_op'.op = "cpu_step" /\ last_op'.value \in UnimplementedOpcodes) =>
          /\ panicked'
          /\ registers' = registers
          /\ ram' = ram
          /\ interrupt_master_enable' = interrupt_master_enable
          /\ previous_ime' = previous_ime
          /\ clock_cycles' = clock_cycles]_vars

\* a step on an unimplemented opcode has been taken
C12_Witness ==
    /\ panicked
    /\ last_op.op = "cpu_step"
    /\ last_op.value \in UnimplementedOpcodes
    /\ read(ram, last_op.address) = last_op.value
-----------------------------------------------------------------------------
(* Instructions executed directly: cpu.execute(instruction)                 *)

\* the number of execute calls in a run
MaxExecutes == 1

\* bytes around the nibble and byte boundaries, for the accumulator, the
\* operand and the immediate byte of an instruction
ByteInputs == {0, 1, 15, 16, 58, 128, 143, 240, 255}

\* values of F as set_f leaves them: carry clear or set, the others all
\* clear or all set
FlagInputs == {0, 16, 224, 240}

\* the stack pointer, with room above and below
ExecSpValues == {53248}

\* the instructions given to execute; value is the immediate byte of the
\* forms that carry one
ExecInstructions(value) ==
    << Ins("ADD", <<"B">>, 0), Ins("ADD_MEM", <<>>, 0), Ins("ADD_IMM", <<value>>, 1),
       Ins("SUB", <<"B">>, 0), Ins("SUB_MEM", <<>>, 0), Ins("SUB_IMM", <<value>>, 1),
       Ins("CP", <<"B">>, 0), Ins("CP_MEM", <<>>, 0), Ins("CP_IMM", <<value>>, 1),
       Ins("INC", <<"A">>, 0), Ins("INC", <<"B">>, 0), Ins("INC", <<"C">>, 0),
       Ins("INC", <<"D">>, 0), Ins("INC", <<"E">>, 0), Ins("INC", <<"H">>, 0),
       Ins("INC", <<"L">>, 0),
       Ins("DEC", <<"A">>, 0), Ins("DEC", <<"B">>, 0), Ins("DEC", <<"C">>, 0),
       Ins("DEC", <<"D">>, 0), Ins("DEC", <<"E">>, 0), Ins("DEC", <<"H">>, 0),
       Ins("DEC", <<"L">>, 0),
       Ins("INC_16", <<"B", "C">>, 0), Ins("INC_16", <<"D", "E">>, 0),
       Ins("INC_16", <<"H", "L">>, 0), Ins("INC_16", <<"SP", "SP">>, 0),
       Ins("DEC_16", <<"B", "C">>, 0), Ins("DEC_16", <<"D", "E">>, 0),
       Ins("DEC_16", <<"H", "L">>, 0), Ins("DEC_16", <<"SP", "SP">>, 0),
       Ins("POP", <<"A", "F">>, 0), Ins("POP", <<"B", "C">>, 0),
       Ins("AND", <<"B">>, 0), Ins("OR", <<"B">>, 0), Ins("XOR", <<"B">>, 0),
       Ins("ADC", <<"B">>, 0), Ins("SBC", <<"B">>, 0),
       Ins("RL", <<FALSE>>, 0), Ins("RR", <<FALSE>>, 0),
       Ins("DAA", <<>>, 0), Ins("SCF", <<>>, 0), Ins("CCF", <<>>, 0),
       Ins("CPL", <<>>, 0),
       Ins("ADD", <<"A">>, 0), Ins("SUB", <<"A">>, 0), Ins("CP", <<"A">>, 0),
       Ins("PUSH", <<"B", "C">>, 0), Ins("PUSH", <<"D", "E">>, 0),
       Ins("PUSH", <<"H", "L">>, 0), Ins("PUSH", <<"A", "F">>, 0),
       Ins("POP", <<"D", "E">>, 0), Ins("POP", <<"H", "L">>, 0),
       Ins("ADC_MEM", <<>>, 0), Ins("ADC_IMM", <<value>>, 1),
       Ins("SBC_MEM", <<>>, 0), Ins("SBC_IMM", <<value>>, 1) >>

\* the immediate bytes tried with instruction number i: every input for a
\* form that carries one, a single one for the others
ImmediatesOf(i) == IF ExecInstructions(0)[i].nimm = 0 THEN {0} ELSE ByteInputs

\* cpu.execute(instruction) with one of the instructions numbered in
\* numbers, in a run of at most bound execute calls
ExecuteWithin(numbers, bound) ==
    /\ ~panicked
    /\ steps < bound
    /\ \E i \in numbers : \E value \in ImmediatesOf(i) :
          LET instruction == ExecInstructions(value)[i]
          IN  /\ SetCPU(execute(CPUState, instruction))
              /\ last_op' = Op(instruction.op, i, value, 0)
    /\ steps' = steps + 1

\* cpu.execute(instruction)
Execute == ExecuteWithin(DOMAIN ExecInstructions(0), MaxExecutes)

\* a CPU as the tests build it: CPU::new, then the register setters and
\* writes to the RAM; the operand is in B and at the address in HL, and two
\* bytes are on the stack
InitExec ==
    \E a \in ByteInputs, x \in ByteInputs, f \in FlagInputs,
       sp \in ExecSpValues, checks \in BOOLEAN :
        LET ram0 == write(write(write(RAM_new, 49152, x), sp, x), sp + 1, a)
            c == [CPU_new(ram0, checks) EXCEPT
                     !.registers = set_f([Registers_new EXCEPT
                                             !.a = a, !.b = x, !.c = 0,
                                             !.d = 255, !.e = 255,
                                             !.h = 192, !.l = 0,
                                             !.sp = sp, !.pc = 256], f)]
        IN  StartState(c, [GPU_new(ram0, checks) EXCEPT !.ram = ram0])

NextExec == Execute

\* the CPU driven by execute calls
SpecExec == InitExec /\ [][NextExec]_vars

\* C13: while the program runs, the low four bits of F are zero.
C13_FlagsLowNibbleZero == ~panicked => BitAnd(registers.f, 15) = 0
\* the instruction an execute operation was given
executed(op) == ExecInstructions(op.value)[op.address]

\* the operand byte of an ALU instruction in CPU state s: the register it
\* names, the byte at the address in HL, or its immediate byte
operand(s, instruction) ==
    IF instruction.nimm = 1 THEN instruction.args[1]
    ELSE IF instruction.args = <<>> THEN Load(s.ram, get_hl(s))
    ELSE s.registers[field(instruction.args[1])]

\* the byte of F for four flag values
flags_byte(zero, subtract, half_carry, carry) ==
    (IF zero THEN ZERO ELSE 0) + (IF subtract THEN SUBTRACT ELSE 0)
    + (IF half_carry THEN HALF_CARRY ELSE 0) + (IF carry THEN CARRY ELSE 0)

\* C14: ADD of operand x (a register, the byte the RAM holds at the address
\* in HL, or an immediate byte) to accumulator a completes and leaves
\* A = (a + x) mod 256, zero set iff A is 0, subtract clear, half-carry set
\* iff (a & 0xF) + (x & 0xF) > 0xF, and carry set iff a + x > 0xFF.
C14_Add ==
    [][(/\ last_op'.op \in {"ADD", "ADD_MEM", "ADD_IMM"}
        /\ last_op'.op = "ADD_MEM" => ~RamPanics(get_hl(CPUState))) =>
          LET a == registers.a
              x == operand(CPUState, executed(last_op'))
          IN  /\ ~panicked'
              /\ registers'.a = (a + x) % 256
              /\ registers'.f = flags_byte((a + x) % 256 = 0, FALSE,
                                           (a % 16) + (x % 16) > 15,
                                           a + x > 255)]_vars

\* an ADD has wrapped to 0x0E with a half-carry and a carry
C14_Witness ==
    /\ ~panicked
    /\ last_op.op \in {"ADD", "ADD_MEM", "ADD_IMM"}
    /\ registers.f = HALF_CARRY + CARRY
    /\ registers.a = 14

\* C15: SUB and CP of operand x with accumulator a complete and set
\* subtract, zero iff a = x, carry iff a < x and half-carry iff
\* (a & 0xF) < (x & 0xF); SUB leaves A = (a - x) mod 256 and CP leaves A
\* unchanged.
C15_SubCp ==
    [][last_op'.op \in {"SUB", "SUB_MEM", "SUB_IMM", "CP", "CP_MEM", "CP_IMM"} =>
          LET a == registers.a
              x == operand(CPUState, executed(last_op'))
          IN  /\ ~panicked'
              /\ registers'.f = flags_byte(a = x, TRUE, (a % 16) < (x % 16), a < x)
              /\ registers'.a = IF last_op'.op \in {"CP", "CP_MEM", "CP_IMM"}
                                THEN a ELSE (a - x + 256) % 256]_vars
\* C16: INC and DEC of an 8-bit register leave the carry flag as it was;
\* INC and DEC of a register pair or of SP change its 16-bit value by plus
\* or minus 1 modulo 65536 and leave F as it was.
C16_IncDecFrame ==
    [][LET instruction == executed(last_op')
           before == CPUState
           after == [before EXCEPT !.registers = registers']
           delta == IF last_op'.op = "INC_16" THEN 1 ELSE 65535
       IN  /\ last_op'.op \in {"INC", "DEC"} =>
                 flag_set(after, CARRY) = flag_set(before, CARRY)
           /\ last_op'.op \in {"INC_16", "DEC_16"} =>
                 /\ get_16(after, instruction.args[1], instruction.args[2])
                       = (get_16(before, instruction.args[1], instruction.args[2])
                          + delta) % 65536
                 /\ registers'.f = registers.f]_vars
-----------------------------------------------------------------------------
(* INC (HL) and DEC (HL)                                                    *)

\* C17: a step on opcode 0x34 replaces the byte at the address in HL by that
\* byte plus 1, a step on opcode 0x35 by that byte minus 1, modulo 256; zero
\* is set iff the new byte is 0, half-carry iff bit 3 carried or borrowed,
\* subtract is clear for 0x34 and set for 0x35, and carry is as it was.
C17_IncDecMemory ==
    [][(last_op'.op = "cpu_step" /\ last_op'.value \in {52, 53}) =>
          LET address == get_hl(CPUState)
              value == Load(ram, address)
              increment == last_op'.value = 52
              result == IF increment THEN (value + 1) % 256
                        ELSE (value + 255) % 256
              half_carry == IF increment THEN value % 16 = 15
                            ELSE value % 16 = 0
          IN  /\ ~panicked'
              /\ Load(ram', address) = result
              /\ registers'.f = flags_byte(result = 0, ~increment, half_carry,
                                           flag_set(CPUState, CARRY))]_vars
-----------------------------------------------------------------------------
(* PUSH and POP                                                             *)

\* the number of PUSH and POP instructions executed in a run
MaxStackOps == 2

\* stack pointers at both ends of the address space and in work RAM
StackSpValues == {0, 1, 2, 53248, 65533, 65535}

\* the PUSH and POP instructions among ExecInstructions
StackNumbers ==
    {i \in DOMAIN ExecInstructions(0) : ExecInstructions(0)[i].op \in {"PUSH", "POP"}}

\* cpu.execute of a PUSH or a POP
StackOp == ExecuteWithin(StackNumbers, MaxStackOps)

\* a CPU with a distinct byte in every register, as test_push_pop builds it
InitStack ==
    \E sp \in StackSpValues, f \in FlagInputs, checks \in BOOLEAN :
        LET c == [CPU_new(RAM_new, checks) EXCEPT
                     !.registers = set_f([Registers_new EXCEPT
                                             !.a = 17, !.b = 34, !.c = 51,
                                             !.d = 68, !.e = 85,
                                             !.h = 119, !.l = 136,
                                             !.sp = sp, !.pc = 22136], f)]
        IN  StartState(c, [GPU_new(RAM_new, checks) EXCEPT !.ram = RAM_new])

NextStack == StackOp

\* the CPU driven by execute calls of PUSH and POP
SpecStack == InitStack /\ [][NextStack]_vars

\* the value of the register pair a PUSH or POP instruction names
pair_value(regs, instruction) ==
    get_u16(regs, field(instruction.args[1]), field(instruction.args[2]))

\* C18: a PUSH of a register pair completes, moves SP down by 2 and changes
\* no other register; a POP that follows it immediately completes, leaves in
\* its pair the value of the pushed pair and moves SP up by 2 again.
C18_PushPop ==
    [][/\ last_op'.op = "PUSH" =>
             /\ ~panicked'
             /\ registers' = [registers EXCEPT !.sp = registers.sp - 2]
       /\ (last_op.op = "PUSH" /\ last_op'.op = "POP") =>
             /\ ~panicked'
             /\ pair_value(registers', executed(last_op'))
                   = pair_value(registers, executed(last_op))
             /\ registers'.sp = registers.sp + 2]_vars
-----------------------------------------------------------------------------
(* Conditional control transfer                                             *)

\* the JR, RET, JP and CALL opcodes, and their condition
JrOpcodes == {24, 32, 40, 48, 56}
RetOpcodes == {192, 200, 201, 208, 216}
JpOpcodes == {194, 195, 202, 210, 218}
CallOpcodes == {196, 204, 205, 212, 220}
TransferOpcodes == JrOpcodes \cup RetOpcodes \cup JpOpcodes \cup CallOpcodes

\* the condition of a transfer opcode in flags byte f: NZ, Z, NC, C, or
\* none for the unconditional forms
condition(opcode, f) ==
    CASE opcode \in {32, 192, 194, 196} -> BitAnd(f, ZERO) = 0
      [] opcode \in {40, 200, 202, 204} -> BitAnd(f, ZERO) # 0
      [] opcode \in {48, 208, 210, 212} -> BitAnd(f, CARRY) = 0
      [] opcode \in {56, 216, 218, 220} -> BitAnd(f, CARRY) # 0
      [] OTHER -> TRUE

\* the encoded length of a transfer opcode
transfer_length(opcode) ==
    IF opcode \in JrOpcodes THEN 2 ELSE IF opcode \in RetOpcodes THEN 1 ELSE 3

-----------------------------------------------------------------------------
(* CALL and RET                                                             *)

\* the address of a CALL, and its target, which holds a RET: a target in
\* work RAM, the CALL itself, the instruction after it, and address 0
CallAddresses == {0, 336}
CallTargets == {0, 336, 339, 49154}
RET_OPCODE == 201

\* a newly constructed CPU at a CALL whose target holds RET
InitCall ==
    \E opcode \in CallOpcodes, pc \in CallAddresses, target \in CallTargets,
       sp \in SpValues, f \in FValues, checks \in BOOLEAN :
        LET ram0 == write(write(write(write(RAM_new,
                        target, RET_OPCODE),
                        pc, opcode), pc + 1, target % 256), pc + 2, target \div 256)
            c == [CPU_new(ram0, checks) EXCEPT
                     !.registers = set_f([Registers_new EXCEPT
                                             !.pc = pc, !.sp = sp], f)]
        IN  StartState(c, [GPU_new(ram0, checks) EXCEPT !.ram = ram0])

NextCall == CpuStep

\* the CPU stepping through a CALL and what follows it
SpecCall == InitCall /\ [][NextCall]_vars

\* C20: a step on a CALL opcode whose condition holds completes, moves SP
\* down by 2, leaves the address of the CALL plus 3 at the new top of the
\* stack (low byte first) and PC at the operand address; a RET step that
\* directly follows it completes and leaves PC at the address of the CALL
\* plus 3 and SP 2 higher again.
C20_CallRet ==
    [][/\ (/\ last_op'.op = "cpu_step"
           /\ last_op'.value \in CallOpcodes
           /\ condition(last_op'.value, registers.f)) =>
             LET pc == registers.pc
                 sp == registers.sp
             IN  /\ ~panicked'
                 /\ registers'.sp = sp - 2
                 /\ Load(ram', sp - 2) = (pc + 3) % 256
                 /\ Load(ram', sp - 1) = (pc + 3) \div 256
                 /\ registers'.pc = Load(ram, pc + 2) * 256 + Load(ram, pc + 1)
       /\ (/\ last_op.op = "cpu_step"
           /\ last_op.value \in CallOpcodes
           /\ condition(last_op.value, registers.f)
           /\ last_op'.op = "cpu_step"
           /\ last_op'.value = RET_OPCODE) =>
             /\ ~panicked'
             /\ registers'.pc = last_op.address + 3
             /\ registers'.sp = registers.sp + 2]_vars
-----------------------------------------------------------------------------
(* Immediate loads and unconditional jumps, at any program counter          *)

\* LD r, d8 for the seven registers, JP a16 and JR e8
LdImmOpcodes == {6, 14, 22, 30, 38, 46, 62}
JP_OPCODE == 195
JR_OPCODE == 24
JumpOpcodes == LdImmOpcodes \cup {JP_OPCODE, JR_OPCODE}

\* program counters at the start, in the middle and at the end of the
\* address space, and operand bytes that make every one of them a target
JumpPcValues == {0, 336, 65533}
JumpImmediate1Values == {0, 2, 80, 128, 253, 254}
JumpImmediate2Values == {0, 1, 192, 255}

\* a newly constructed CPU at one of these instructions, with a distinct
\* byte in every register; the instruction is written as far as the RAM
\* reaches
InitJump ==
    \E opcode \in JumpOpcodes, immediate1 \in JumpImmediate1Values,
       immediate2 \in JumpImmediate2Values, pc \in JumpPcValues,
       f \in FValues, checks \in BOOLEAN :
        LET ram1 == write(write(RAM_new, pc, opcode), pc + 1, immediate1)
            ram0 == IF RamPanics(pc + 2) THEN ram1
                    ELSE write(ram1, pc + 2, immediate2)
            c == [CPU_new(ram0, checks) EXCEPT
                     !.registers = set_f([Registers_new EXCEPT
                                             !.a = 17, !.b = 34, !.c = 51,
                                             !.d = 68, !.e = 85,
                                             !.h = 119, !.l = 136,
                                             !.sp = 53248, !.pc = pc], f)]
        IN  StartState(c, [GPU_new(ram0, checks) EXCEPT !.ram = ram0])

\* the CPU stepping from one of these instructions
SpecJump == InitJump /\ [][NextCall]_vars

\* the register an LD r, d8 opcode names
ld_imm_target(opcode) ==
    CASE opcode = 6 -> "b" [] opcode = 14 -> "c" [] opcode = 22 -> "d"
      [] opcode = 30 -> "e" [] opcode = 38 -> "h" [] opcode = 46 -> "l"
      [] opcode = 62 -> "a"

\* C21: a step on an LD r, d8 opcode at program counter p with immediate
\* byte v completes, returns 8 cycles, sets r to v and PC to p + 2, and
\* changes no other register, flag or byte of memory.
C21_LoadImmediate ==
    [][(last_op'.op = "cpu_step" /\ last_op'.value \in LdImmOpcodes) =>
          LET p == registers.pc
              v == Load(ram, (p + 1) % 65536)
          IN  /\ ~panicked'
              /\ last_op'.result = 8
              /\ registers' = [registers EXCEPT
                                  ![ld_imm_target(last_op'.value)] = v,
                                  !.pc = (p + 2) % 65536]
              /\ ram' = ram]_vars
\* C22: a step on JP a16 (opcode 0xC3, then the low and the high byte of
\* target t) completes, returns 12 cycles, leaves PC = t and changes no
\* other register.
C22_JumpAbsolute ==
    [][(last_op'.op = "cpu_step" /\ last_op'.value = JP_OPCODE) =>
          LET p == registers.pc
              t == Load(ram, (p + 2) % 65536) * 256 + Load(ram, (p + 1) % 65536)
          IN  /\ ~panicked'
              /\ last_op'.result = 12
              /\ registers' = [registers EXCEPT !.pc = t]]_vars

\* C23: a step on JR e8 (opcode 0x18) at address p with signed displacement
\* e completes, returns 8 cycles and leaves PC = (p + e) mod 65536.
C23_JumpRelative ==
    [][(last_op'.op = "cpu_step" /\ last_op'.value = JR_OPCODE) =>
          LET p == registers.pc
              e == as_i8(Load(ram, (p + 1) % 65536))
          IN  /\ ~panicked'
              /\ last_op'.result = 8
              /\ registers'.pc = (p + e + 65536) % 65536]_vars
-----------------------------------------------------------------------------
(* Cycle accounting                                                         *)

\* C24: the count a completed step returns is the one get_instruction_info
\* gives for the opcode byte, whatever the flags and whether or not a
\* transfer was taken; the step adds exactly that count to the cycle
\* counter, and handle_interrupts leaves the counter alone, so the counter
\* is the sum of the counts returned.
C24_CycleAccounting ==
    [][/\ (last_op'.op = "cpu_step" /\ ~panicked') =>
             /\ last_op'.result = get_instruction_info(last_op'.value)[2]
             /\ clock_cycles' = clock_cycles + last_op'.result
       /\ last_op'.op = "handle_interrupts" => clock_cycles' = clock_cycles]_vars

\* JP NZ (12 cycles) was taken and the NOP at its target (4 cycles) stepped
C24_Witness ==
    /\ ~panicked
    /\ steps = 2
    /\ last_op.op = "cpu_step"
    /\ last_op.value = 0
    /\ registers.pc = 49155
    /\ clock_cycles = 16
-----------------------------------------------------------------------------
(* The LCD-status and LY registers                                          *)

\* the LCD-status register
lcd_status_byte == read(ram, LCD_STATUS_ADDRESS)

\* C25: after a PPU step, with or without a mode transition, the low two
\* bits of the LCD-status register are the number of the current mode, its
\* bit 2 is set iff the scanline counter equals the LY-compare register, and
\* the LY register holds the scanline counter.
C25_StatusMirrors ==
    (last_op.op = "gpu_step" /\ ~panicked) =>
        /\ BitAnd(lcd_status_byte, 3) = mode_as_u8(mode)
        /\ (BitAnd(lcd_status_byte, 4) # 0) = (current_scanline = read(ram, LYC_ADDRESS))
        /\ read(ram, LY_ADDRESS) = current_scanline

\* a step has entered Vertical-blank at the scanline the LY-compare register
\* holds
C25_Witness ==
    /\ last_op.op = "gpu_step"
    /\ ~panicked
    /\ mode = "VBLANK"
    /\ clock = 0
    /\ current_scanline = 144
    /\ lcd_status_byte = 5
    /\ read(ram, LY_ADDRESS) = 144
-----------------------------------------------------------------------------
(* One transition per step                                                  *)

\* the pairs <<mode, next mode>> of step_set_mode's arms
ModeTransitions ==
    {<<"OAM", "VRAM">>, <<"VRAM", "HBLANK">>, <<"HBLANK", "OAM">>,
     <<"HBLANK", "VBLANK">>, <<"VBLANK", "OAM">>}

\* C26: one PPU step makes at most one mode transition whatever the cycle
\* count: the mode after the step is the mode before it or its direct
\* successor, and the scanline counter advances by at most one line. Every
\* transition leaves the cycle accumulator at 0, so the cycles beyond the
\* threshold are dropped; a step without transition or line advance adds its
\* cycles to the accumulator.
C26_OneTransition ==
    [][(last_op'.op = "gpu_step" /\ ~panicked') =>
          /\ mode' # mode => (<<mode, mode'>> \in ModeTransitions /\ clock' = 0)
          /\ current_scanline' \in {current_scanline, current_scanline + 1, 0}
          /\ current_scanline' # current_scanline => clock' = 0
          /\ (mode' = mode /\ current_scanline' = current_scanline) =>
                 /\ clock' = clock + last_op'.value
                 /\ clock' < threshold(mode)]_vars

\* a step of 4560 cycles, 57 times the OAM-search threshold, has moved the
\* PPU from OAM-search to pixel transfer only and left nothing in the
\* accumulator
C26_Witness ==
    /\ last_op.op = "gpu_step"
    /\ last_op.value = CYCLES_VBLANK
    /\ ~panicked
    /\ mode = "VRAM"
    /\ clock = 0
    /\ current_scanline = 0
-----------------------------------------------------------------------------
(* The renderer, driven by step from the state the renderer's tests build  *)

\* write_tile for a tile whose eight lines all hold the bitplane bytes low
\* and high
WithTile(memory, tile_number, low, high) ==
    [i \in DOMAIN memory \cup
           {tile_number * 16 + k : k \in {j \in 0..15 : (IF j % 2 = 0 THEN low ELSE high) # 0}} |->
        IF i \in (tile_number * 16)..(tile_number * 16 + 15)
        THEN (IF i % 2 = 0 THEN low ELSE high)
        ELSE memory[i]]

\* VRAM with tile 0 blank, tiles 1, 2 and 3 filled with colors 1, 2 and 3, tile
\* 4 holding color 1 in its left half only, and tile 2 placed at the second
\* entry of the tile map at 0x9800
RenderVram ==
    Store(WithTile(WithTile(WithTile(WithTile(EmptyArray, 1, 255, 0), 2, 0, 255),
                            3, 255, 255), 4, 240, 0),
          38913 - VRAM_ADDRESS, 2)

\* write_sprite for each <<y, x, tile_number, attributes>> of entries, from
\* sprite index 0 up
WithSprites(entries) ==
    LET byte(i) == entries[(i \div 4) + 1][(i % 4) + 1]
    IN  [i \in {j \in 0..(Len(entries) * 4 - 1) : byte(j) # 0} |-> byte(i)]

\* the object tables the renderer is given: twelve sprites on rows 0..7 in
\* descending X order; twelve of which the last three share one X; two that
\* overlap in four columns; two at the same X; a below-background sprite
\* over a background tile, an x-flipped one, one on the last visible rows and
\* one on scanline 144
SpriteTables ==
    <<[i \in 1..12 |-> <<16, 8 + 8 * (12 - i), ((i - 1) % 3) + 1, 0>>],
      [i \in 1..12 |-> IF i <= 9 THEN <<16, 8 + 8 * (i - 1), 1, 0>>
                                 ELSE <<16, 100, i - 9, 0>>],
      <<<<17, 20, 1, 0>>, <<17, 16, 2, 0>>>>,
      <<<<17, 16, 1, 0>>, <<17, 16, 2, 0>>>>,
      <<<<16, 16, 1, 128>>, <<16, 40, 4, 32>>, <<152, 80, 2, 0>>, <<160, 8, 1, 0>>>>>>

\* LCDC values: sprites only; sprites of height 16; background only and
\* background with sprites, tile data at 0x8000
LcdcValues == {2, 6, 17, 19}

\* the scanlines at which the renderer is started
RenderScanlines == {0, 1, 7, 143}

\* cycle counts that complete every visible-scanline mode in one step
RenderCycles == {CYCLES_HBLANK, CYCLES_VBLANK}

\* the number of steps taken from the state the test builds
MaxRenderSteps == 1

\* create_gpu_with_state(Mode::HBLANK, scanline, 0, ram) followed by
\* write_tile, write_sprite and set_lcdc
RenderState(table, lcdc, scanline, checks) ==
    LET ram0 == write(RAM_new, LCDC_ADDRESS, lcdc)
        g == [GPU_new(ram0, checks) EXCEPT !.mode = "HBLANK",
                                           !.current_scanline = scanline,
                                           !.vram = RenderVram,
                                           !.oam = WithSprites(SpriteTables[table])]
    IN  StartState(CPU_new(ram0, checks), g)

InitRender ==
    \E table \in DOMAIN SpriteTables, lcdc \in LcdcValues,
       scanline \in RenderScanlines, checks \in BOOLEAN :
        RenderState(table, lcdc, scanline, checks)

\* gpu.step(cycles), as the renderer's tests call it a few times
RenderStep(cycles) ==
    /\ steps < MaxRenderSteps
    /\ ~panicked
    /\ SetGPU(GPU_step(GPUState, cycles))
    /\ last_op' = Op("gpu_step", 0, cycles, 0)
    /\ steps' = steps + 1

NextRender == \E cycles \in RenderCycles : RenderStep(cycles)

\* the renderer run on one scanline of each object table
SpecRender == InitRender /\ [][NextRender]_vars

\* the LCDC values of the whole-frame runs, which use the last object table
FrameLcdcValues == {2, 6}

InitFrame ==
    \E lcdc \in FrameLcdcValues, checks \in BOOLEAN :
        RenderState(Len(SpriteTables), lcdc, 0, checks)

NextFrame == \E cycles \in RenderCycles : GpuStep(cycles)

\* the PPU stepped through whole frames with the sprite pass enabled
SpecFrame == InitFrame /\ [][NextFrame]_vars
-----------------------------------------------------------------------------
(* The sprite pass                                                          *)

\* byte k of object-table entry i: Y, X, tile number, attributes
object_byte(i, k) == Load(oam, i * 4 + k)

\* the height of the sprites under the current LCDC
object_height == IF BitAnd(read(ram, LCDC_ADDRESS), 4) # 0 THEN 16 ELSE 8

\* the entries whose rows include the current scanline
covering ==
    {i \in 0..39 : /\ object_byte(i, 0) - 16 <= current_scanline
                   /\ current_scanline < object_byte(i, 0) - 16 + object_height}

\* entry j comes before entry i: lower X, or the same X and a lower index
comes_before(j, i) ==
    \/ object_byte(j, 1) < object_byte(i, 1)
    \/ (object_byte(j, 1) = object_byte(i, 1) /\ j < i)

\* the ten covering entries that come first
first_ten == {i \in covering : Cardinality({j \in covering : comes_before(j, i)}) < 10}

\* the color number entry i has at screen column p of the current scanline
\* (0, transparent, where the entry has no pixel)
object_color(i, p) ==
    LET x == p - (object_byte(i, 1) - 8)
        row == current_scanline - (object_byte(i, 0) - 16)
        pixel_y == IF BitAnd(object_byte(i, 3), 64) # 0 THEN object_height - 1 - row ELSE row
        pixel_x == IF BitAnd(object_byte(i, 3), 32) # 0 THEN 7 - x ELSE x
        line == object_byte(i, 2) * 16 + pixel_y * 2
    IN  IF i \notin covering \/ x < 0 \/ x > 7 THEN 0
        ELSE Bit(Load(vram, line + 1), 7 - pixel_x) * 2 + Bit(Load(vram, line), 7 - pixel_x)

\* the four bytes of pixel p of row y in a frame buffer
Quad(buffer, y, p) ==
    [k \in 1..4 |-> Load(buffer, (y * SCANLINE_SIZE + p) * 4 + k - 1)]

\* the step is one that calls render_scanline: a step in Horizontal-blank that
\* reaches the threshold, and it did not panic
renders ==
    /\ last_op'.op = "gpu_step"
    /\ ~panicked'
    /\ mode = "HBLANK"
    /\ clock + last_op'.value >= CYCLES_HBLANK

\* the frame buffer the sprite pass starts from
before_sprites ==
    IF get_lcdc(GPUState).bg_enable THEN render_background(GPUState).screen_buffer
    ELSE screen_buffer

\* C27: when more than ten entries cover the scanline, the sprite pass draws
\* the ten with the lowest X, equal X in ascending index order, and no pixel
\* of another entry: a pixel where none of the ten is opaque is left as it
\* was, a pixel where some of them are opaque (and above the background)
\* holds the color of one of these, and no byte outside the row changes.
C27_TenSprites ==
    [][(renders /\ get_lcdc(GPUState).obj_enable /\ Cardinality(covering) > 10) =>
          LET base == before_sprites
              chosen == first_ten
              row == (current_scanline * SCANLINE_SIZE * 4)
                         .. (current_scanline * SCANLINE_SIZE * 4 + SCANLINE_SIZE * 4 - 1)
          IN  /\ Cardinality(chosen) = 10
              /\ \A p \in 0..(SCANLINE_SIZE - 1) :
                    LET opaque == {i \in chosen : object_color(i, p) # 0}
                    IN  /\ opaque = {} =>
                               Quad(screen_buffer', current_scanline, p)
                                   = Quad(base, current_scanline, p)
                        /\ (opaque # {} /\ \A i \in opaque : BitAnd(object_byte(i, 3), 128) = 0) =>
                               \E i \in opaque :
                                   Quad(screen_buffer', current_scanline, p)
                                       = bg_color(object_color(i, p))
              /\ \A index \in (DOMAIN screen_buffer' \cup DOMAIN base) \ row :
                    Load(screen_buffer', index) = Load(base, index)]_vars

\* row 0 of the first object table is drawn: the entry with the tenth lowest
\* X (index 2, columns 72..79) is in the frame buffer and the one with the
\* eleventh (index 1, columns 80..87) is not
C27_Witness ==
    /\ last_op.op = "gpu_step"
    /\ ~panicked
    /\ steps = 1
    /\ oam = WithSprites(SpriteTables[1])
    /\ read(ram, LCDC_ADDRESS) = 2
    /\ current_scanline = 1
    /\ Quad(screen_buffer, 0, 72) = <<0, 0, 0, 255>>
    /\ Quad(screen_buffer, 0, 80) = <<0, 0, 0, 0>>
    /\ Quad(screen_buffer, 0, 0) = <<0, 0, 0, 255>>
-----------------------------------------------------------------------------
(* The background pass                                                      *)

\* the bytes of row y of the frame buffer
RowBytes(y) == (y * SCANLINE_SIZE * 4) .. (y * SCANLINE_SIZE * 4 + SCANLINE_SIZE * 4 - 1)

\* C28: the background pass for scanline y leaves the quad of pixel x at
\* bytes (y*160 + x)*4 .. (y*160 + x)*4 + 3 and changes no byte outside the
\* 640 bytes of row y.
C28_BackgroundRow ==
    [][(renders /\ get_lcdc(GPUState).bg_enable /\ ~get_lcdc(GPUState).obj_enable) =>
          /\ \A x \in 0..(SCANLINE_SIZE - 1) :
                Quad(screen_buffer', current_scanline, x) = bg_pixel(GPUState, x)
          /\ \A index \in (DOMAIN screen_buffer' \cup DOMAIN screen_buffer)
                              \ RowBytes(current_scanline) :
                Load(screen_buffer', index) = Load(screen_buffer, index)]_vars
-----------------------------------------------------------------------------
(* Overlapping sprites                                                      *)

\* the drawn entries that are opaque at column p of the current scanline
opaque_at(p) == {i \in first_ten : object_color(i, p) # 0}

\* C29: where two or more of the drawn sprites are opaque at one screen
\* position and all of them are above the background, the frame buffer holds
\* after the sprite pass the pixel of the one with the lowest X, of the
\* lowest index among equal X.
C29_LowerXWins ==
    [][(renders /\ get_lcdc(GPUState).obj_enable) =>
          \A p \in 0..(SCANLINE_SIZE - 1) :
              LET opaque == opaque_at(p)
              IN  (/\ Cardinality(opaque) >= 2
                   /\ \A i \in opaque : BitAnd(object_byte(i, 3), 128) = 0) =>
                      \E i \in opaque :
                          /\ \A j \in opaque : ~comes_before(j, i)
                          /\ Quad(screen_buffer', current_scanline, p)
                                 = bg_color(object_color(i, p))]_vars
-----------------------------------------------------------------------------
(* One render per visible scanline                                          *)

\* C30: in the frames produced by step, render_scanline runs at the
\* Horizontal-blank transition and nowhere else. A step that leaves
\* Horizontal-blank is at a visible scanline 0..143, leaves the frame buffer
\* that render_scanline produces for that scanline and then increments the
\* scanline counter; every other step leaves the frame buffer alone; the
\* counter of a visible scanline changes only at such a transition, by one,
\* so each visible scanline is rendered once and in ascending order; and at
\* scanlines 144..153 the mode is Vertical-blank, whose arm does not render.
C30_RenderPerScanline ==
    [][last_op'.op = "gpu_step" =>
          LET fires == mode = "HBLANK" /\ clock + last_op'.value >= CYCLES_HBLANK
          IN  /\ ~panicked'
              /\ fires =>
                     /\ current_scanline < SCANLINES_DISPLAY
                     /\ screen_buffer' = render_scanline(GPUState).screen_buffer
                     /\ current_scanline' = current_scanline + 1
              /\ ~fires => screen_buffer' = screen_buffer
              /\ (current_scanline < SCANLINES_DISPLAY /\ current_scanline' # current_scanline)
                     => fires
              /\ current_scanline >= SCANLINES_DISPLAY =>
                     /\ mode = "VBLANK"
                     /\ current_scanline' \in {current_scanline, current_scanline + 1, 0}
                     /\ current_scanline' = 0 => current_scanline = MAX_SCANLINES - 1]_vars

\* the last visible scanline has been rendered at the transition into
\* Vertical-blank: the frame buffer holds the sprite of rows 136..143 on row
\* 143 and the x-flipped sprite on row 0
C30_Witness ==
    /\ last_op.op = "gpu_step"
    /\ ~panicked
    /\ mode = "VBLANK"
    /\ clock = 0
    /\ current_scanline = SCANLINES_DISPLAY
    /\ Quad(screen_buffer, 143, 72) = <<119, 119, 119, 255>>
    /\ Quad(screen_buffer, 0, 36) = <<204, 204, 204, 255>>
    /\ Quad(screen_buffer, 0, 32) = <<0, 0, 0, 0>>
-----------------------------------------------------------------------------
(* Add and subtract with carry                                              *)

\* the carry flag of F as 0 or 1
carry_in(f) == IF BitAnd(f, CARRY) # 0 THEN 1 ELSE 0

\* C31: ADC and SBC, in their register, memory and immediate forms, complete
\* and leave A = (a + x + c) mod 256 and A = (a - x - c) mod 256, c being 1
\* iff the carry flag was set, whatever the other three flags.
C31_AdcSbc ==
    [][LET x == operand(CPUState, executed(last_op'))
           c == carry_in(registers.f)
       IN  /\ last_op'.op \in {"ADC", "ADC_MEM", "ADC_IMM"} =>
                  /\ ~panicked'
                  /\ registers'.a = (registers.a + x + c) % 256
           /\ last_op'.op \in {"SBC", "SBC_MEM", "SBC_IMM"} =>
                  /\ ~panicked'
                  /\ registers'.a = (registers.a - x - c + 512) % 256]_vars
-----------------------------------------------------------------------------
(* Accumulator rotates                                                      *)

RLCA_OPCODE == 7
RRCA_OPCODE == 15
RLA_OPCODE == 23
RRA_OPCODE == 31
RotateOpcodes == {RLCA_OPCODE, RRCA_OPCODE, RLA_OPCODE, RRA_OPCODE}

\* C32: a step of RLCA, RRCA, RLA or RRA completes; the bit shifted out of A
\* becomes the carry flag and the other flags are cleared; the vacated bit
\* (bit 0 for the left rotates, bit 7 for the right ones) receives the bit
\* shifted out for RLCA and RRCA and the old carry flag for RLA and RRA.
C32_Rotates ==
    [][(last_op'.op = "cpu_step" /\ last_op'.value \in RotateOpcodes) =>
          LET opcode == last_op'.value
              left == opcode \in {RLCA_OPCODE, RLA_OPCODE}
              out == IF left THEN Bit(registers.a, 7) ELSE Bit(registers.a, 0)
              in == IF opcode \in {RLCA_OPCODE, RRCA_OPCODE} THEN out
                    ELSE carry_in(registers.f)
          IN  /\ ~panicked'
              /\ registers'.a = IF left THEN ((registers.a * 2) % 256) + in
                                ELSE registers.a \div 2 + 128 * in
              /\ registers'.f = out * CARRY]_vars
-----------------------------------------------------------------------------
(* Decimal adjustment after an addition                                     *)

\* the packed binary-coded-decimal bytes: both nibbles at most 9
BcdBytes == {tens * 16 + units : tens \in 0..9, units \in 0..9}

\* the decimal number a packed byte encodes, and the packed byte of n < 100
bcd_value(byte) == (byte \div 16) * 10 + (byte % 16)
bcd_pack(n) == (n \div 10) * 16 + (n % 10)

\* the number of execute calls in a decimal addition
MaxBcdOps == 2

\* ADD B and DAA among ExecInstructions
BcdNumbers ==
    {i \in DOMAIN ExecInstructions(0) :
        ExecInstructions(0)[i] \in {Ins("ADD", <<"B">>, 0), Ins("DAA", <<>>, 0)}}

\* cpu.execute of ADD B or of DAA
BcdOp == ExecuteWithin(BcdNumbers, MaxBcdOps)

\* a new CPU with packed decimal bytes in A and B
InitBcd ==
    \E a \in BcdBytes, b \in BcdBytes, checks \in BOOLEAN :
        LET c == [CPU_new(RAM_new, checks) EXCEPT
                     !.registers = [Registers_new EXCEPT !.a = a, !.b = b]]
        IN  StartState(c, [GPU_new(RAM_new, checks) EXCEPT !.ram = RAM_new])

NextBcd == BcdOp

\* ADD B and DAA executed on packed decimal operands
SpecBcd == InitBcd /\ [][NextBcd]_vars

\* C33: for packed decimal bytes a and b, ADD of b to a followed by DAA
\* leaves in A the packed encoding of (a + b) mod 100, the carry flag set iff
\* the decimal sum is at least 100, the zero flag set iff the byte is 0, and
\* the subtract flag as ADD left it (clear). At the DAA that follows the
\* first ADD, B still holds b, A holds (a + b) mod 256 and the carry flag the
\* ninth bit of that sum.
C33_DecimalAdjust ==
    [][(steps = 1 /\ last_op.op = "ADD" /\ last_op'.op = "DAA") =>
          LET b == registers.b
              a == registers.a + 256 * carry_in(registers.f) - b
              sum == bcd_value(a) + bcd_value(b)
          IN  /\ a \in BcdBytes /\ b \in BcdBytes
              /\ ~panicked'
              /\ registers'.a = bcd_pack(sum % 100)
              /\ (BitAnd(registers'.f, CARRY) # 0) = (sum >= 100)
              /\ (BitAnd(registers'.f, ZERO) # 0) = (registers'.a = 0)
              /\ BitAnd(registers'.f, SUBTRACT) = 0]_vars
-----------------------------------------------------------------------------
(* 16-bit addition to HL                                                    *)

\* the ADD HL,rr opcodes for BC, DE, HL and SP
AddHlOpcodes == {9, 25, 41, 57}

\* the 16-bit register an ADD HL,rr opcode names
add_hl_operand(opcode, regs) ==
    CASE opcode = 9 -> regs.b * 256 + regs.c
      [] opcode = 25 -> regs.d * 256 + regs.e
      [] opcode = 41 -> regs.h * 256 + regs.l
      [] opcode = 57 -> regs.sp

\* C34: a step of ADD HL,rr completes and leaves HL = (HL + rr) mod 65536,
\* the carry flag set iff the sum exceeded 0xFFFF, the half-carry flag set
\* iff the addition carried out of the low byte (the carry add_hl computes
\* inside the addition), the zero flag set iff the result is 0, and the
\* subtract flag clear.
C34_AddHl ==
    [][(last_op'.op = "cpu_step" /\ last_op'.value \in AddHlOpcodes) =>
          LET hl == registers.h * 256 + registers.l
              addend == add_hl_operand(last_op'.value, registers)
              result == (hl + addend) % 65536
          IN  /\ ~panicked'
              /\ registers'.h * 256 + registers'.l = result
              /\ registers'.f = flags_byte(result = 0, FALSE,
                                           (hl % 256) + (addend % 256) > 255,
                                           hl + addend > 65535)]_vars
-----------------------------------------------------------------------------
(* Restarts                                                                 *)

\* the restart opcodes 0xC7, 0xCF, 0xD7, 0xDF, 0xE7, 0xEF, 0xF7, 0xFF
RstOpcodes == {199 + 8 * n : n \in 0..7}

\* the fixed vector of a restart opcode: 0x00, 0x08, ..., 0x38
rst_vector(opcode) == opcode - 199

\* C35: a step of a restart opcode completes, decreases SP by 2 (a return
\* address is pushed) and sets PC to the opcode's vector.
C35_Restart ==
    [][(last_op'.op = "cpu_step" /\ last_op'.value \in RstOpcodes) =>
          /\ ~panicked'
          /\ registers'.sp = registers.sp - 2
          /\ registers'.pc = rst_vector(last_op'.value)]_vars
-----------------------------------------------------------------------------
(* The stack opcodes and their register pairs                               *)

\* PUSH BC, DE, HL, AF and POP BC, DE, HL, AF
PushOpcodes == {197, 213, 229, 245}
PopOpcodes == {193, 209, 225, 241}

\* the two registers (high, low) a stack opcode's mnemonic names
stack_pair(opcode) ==
    CASE opcode \in {193, 197} -> <<"b", "c">>
      [] opcode \in {209, 213} -> <<"d", "e">>
      [] opcode \in {225, 229} -> <<"h", "l">>
      [] opcode \in {241, 245} -> <<"a", "f">>

\* C36: a step of a stack opcode completes and works on the pair its
\* mnemonic names. PUSH stores the pair's high byte at SP-1 and its low byte
\* at SP-2, decreases SP by 2 and changes no register but SP and PC and no
\* other byte of memory; POP loads the pair's low byte from SP and its high
\* byte from SP+1, increases SP by 2 and changes no other register but PC
\* and no memory.
C36_StackPairs ==
    [][(last_op'.op = "cpu_step" /\ last_op'.value \in PushOpcodes \cup PopOpcodes) =>
          LET opcode == last_op'.value
              high == stack_pair(opcode)[1]
              low == stack_pair(opcode)[2]
              sp == registers.sp
          IN  /\ ~panicked'
              /\ registers'.pc = registers.pc + 1
              /\ opcode \in PushOpcodes =>
                    /\ registers' = [registers EXCEPT !.sp = sp - 2, !.pc = @ + 1]
                    /\ ram' = write(write(ram, sp - 1, registers[high]), sp - 2, registers[low])
              /\ opcode \in PopOpcodes =>
                    /\ ram' = ram
                    /\ registers' = [registers EXCEPT ![low] = read(ram, sp),
                                                      ![high] = read(ram, sp + 1),
                                                      !.sp = sp + 2, !.pc = @ + 1]]_vars
-----------------------------------------------------------------------------
(* Absolute loads and stores of the accumulator                             *)

LD_A16_A_OPCODE == 234
LD_A_A16_OPCODE == 250

\* the 16-bit operand of the instruction at the program counter
operand_16 == read(ram, registers.pc + 2) * 256 + read(ram, registers.pc + 1)

\* C37: a step of 0xEA completes, stores A at the address n given by its
\* operand and changes no register but PC; a step of 0xFA completes, loads A
\* from the address n given by its operand and does not modify memory. Hence
\* 0xEA with n, any change of A, then 0xFA with n restores in A the value
\* stored.
C37_AbsoluteLoadStore ==
    [][/\ (last_op'.op = "cpu_step" /\ last_op'.value = LD_A16_A_OPCODE) =>
              /\ ~panicked'
              /\ ram' = write(ram, operand_16, registers.a)
              /\ registers' = [registers EXCEPT !.pc = @ + 3]
       /\ (last_op'.op = "cpu_step" /\ last_op'.value = LD_A_A16_OPCODE) =>
              /\ ~panicked'
              /\ ram' = ram
              /\ registers' = [registers EXCEPT !.a = read(ram, operand_16),
                                                !.pc = @ + 3]]_vars
-----------------------------------------------------------------------------
(* Progress of the mode machine                                             *)

\* cycle counts of a driver that keeps stepping: the least count the claim
\* allows and the length of Horizontal-blank
LiveCycles == {1, CYCLES_HBLANK}

\* a newly constructed PPU
InitLive ==
    \E checks \in BOOLEAN :
        StartState(CPU_new(RAM_new, checks), GPU_new(RAM_new, checks))

NextLive == \E cycles \in LiveCycles : GpuStep(cycles)

\* the PPU stepped again and again: gpu.step is called on every iteration of
\* the driver's loop, so steps never cease. A step is possible in every state
\* that has not panicked, and no step of this specification panics, so this
\* is weak fairness of the step, WF_vars(NextLive), stated without ENABLED.
SpecLive == InitLive /\ [][NextLive]_vars /\ []<><<NextLive>>_vars

-----------------------------------------------------------------------------
(* Which interrupt a dispatch services                                      *)

\* handle_interrupts from the point where interrupt_flag and interrupt_enable
\* have been read (cpu.rs:1502-1512): the gate on interrupt_flag &
\* interrupt_enable, and the dispatch
dispatch(s, interrupt_flag, interrupt_enable) ==
    LET s1 == [s EXCEPT !.previous_ime = s.interrupt_master_enable,
                        !.interrupt_master_enable = FALSE]
        sp == s.registers.sp
        s2 == push_16bit(s1, sp, s1.registers.pc)
        interrupt_vector == get_interrupt_vector(interrupt_flag)
        interrupt_handler == get_interrupt_handler(interrupt_vector)
        s3 == [set_reg(s2, "sp", sp - 2) EXCEPT
                  !.ram = write(@, INTERRUPT_FLAGS_ADDRESS,
                                BitAnd(interrupt_flag, 255 - Interrupt[interrupt_vector]))]
    IN  IF BitAnd(interrupt_flag, interrupt_enable) = 0 THEN s
        ELSE IF s2.panicked THEN s2
        ELSE set_reg(s3, "pc", interrupt_handler)

\* the bytes the two registers are given
DispatchFlags == 0..63
DispatchEnables == 0..31

\* the number of dispatches in a run
MaxDispatches == 1

\* the dispatch of handle_interrupts, for a byte interrupt_enable of the
\* interrupt-enable register
Dispatch(interrupt_enable) ==
    /\ ~panicked
    /\ steps < MaxDispatches
    /\ interrupt_master_enable
    /\ BitAnd(interrupt_flags, 31) # 0
    /\ SetCPU(dispatch(CPUState, interrupt_flags, interrupt_enable))
    /\ last_op' = Op("dispatch", interrupt_flags, interrupt_enable, 0)
    /\ steps' = steps + 1

\* a CPU with the interrupt master enable set and requests pending
InitDispatch ==
    \E if0 \in DispatchFlags, checks \in BOOLEAN :
        LET ram0 == write(RAM_new, INTERRUPT_FLAGS_ADDRESS, if0)
            c == [CPU_new(ram0, checks) EXCEPT
                     !.registers = [Registers_new EXCEPT !.pc = 336, !.sp = 53248],
                     !.interrupt_master_enable = TRUE]
        IN  StartState(c, [GPU_new(ram0, checks) EXCEPT !.ram = ram0])

NextDispatch == \E interrupt_enable \in DispatchEnables : Dispatch(interrupt_enable)

\* the gate and the dispatch of handle_interrupts over the values of the two
\* interrupt registers
SpecDispatch == InitDispatch /\ [][NextDispatch]_vars

-----------------------------------------------------------------------------
(* The timer                                                                *)

\* the number of timer operations in a run
MaxTimerSteps == 3

\* timer.do_cycle(ticks)
TimerDoCycle(ticks) ==
    /\ ~panicked
    /\ steps < MaxTimerSteps
    /\ LET after == Timer_do_cycle(timer, ticks)
       IN  /\ timer' = after.timer
           /\ last_op' = Op("do_cycle", 0, ticks,
                            IF after.interrupt_triggered THEN 1 ELSE 0)
    /\ steps' = steps + 1
    /\ UNCHANGED <<ram, cpu_vars, gpu_vars, panicked, overflow_checks>>

\* timer.write_register(address, value)
TimerWriteRegister(address, value) ==
    /\ ~panicked
    /\ steps < MaxTimerSteps
    /\ IF TimerPanics(address)
       THEN panicked' = TRUE /\ timer' = timer
       ELSE panicked' = FALSE /\ timer' = Timer_write_register(timer, address, value)
    /\ last_op' = Op("write_register", address, value, 0)
    /\ steps' = steps + 1
    /\ UNCHANGED <<ram, cpu_vars, gpu_vars, overflow_checks>>

\* timer.read_register(address)
TimerReadRegister(address) ==
    /\ ~panicked
    /\ steps < MaxTimerSteps
    /\ IF TimerPanics(address)
       THEN panicked' = TRUE /\ last_op' = Op("read_register", address, 0, 0)
       ELSE panicked' = FALSE
            /\ last_op' = Op("read_register", address, 0,
                             Timer_read_register(timer, address))
    /\ steps' = steps + 1
    /\ UNCHANGED <<ram, cpu_vars, gpu_vars, overflow_checks, timer>>

\* the registers the timer starts a run with: disabled and each of the four
\* periods, a reload value of zero and one near the top, a counter at zero
\* and one about to overflow
TacValues == {0, 4, 5, 6, 7}
TmaValues == {0, 250}
TimaValues == {0, 255}

\* the ticks handed to do_cycle: cycle counts of single instructions, of some
\* hundred instructions and of a whole frame (70224 = 154 * 456), and the
\* first count above the range of a u16
TimerTicks == {4, 24, 1000, 5000, 65536, 70224}

\* the register writes and reads of a run; 0xFF08 is not a timer register
TimerWrites == {<<TAC_ADDRESS, 0>>, <<TAC_ADDRESS, 5>>, <<TIMA_ADDRESS, 255>>,
                <<DIV_ADDRESS, 7>>, <<65288, 0>>}
TimerReads == {DIV_ADDRESS, TIMA_ADDRESS, 65288}

InitTimer ==
    \E checks \in BOOLEAN, tac \in TacValues, tma \in TmaValues, tima \in TimaValues :
        StartStateWith(CPU_new(RAM_new, checks), GPU_new(RAM_new, checks),
                       Timer_write_register(
                           Timer_write_register(
                               Timer_write_register(Timer_new, TAC_ADDRESS, tac),
                               TMA_ADDRESS, tma),
                           TIMA_ADDRESS, tima))

NextTimer ==
    \/ \E ticks \in TimerTicks : TimerDoCycle(ticks)
    \/ \E w \in TimerWrites : TimerWriteRegister(w[1], w[2])
    \/ \E address \in TimerReads : TimerReadRegister(address)

\* the timer alone, driven by do_cycle and its register accesses
SpecTimer == InitTimer /\ [][NextTimer]_vars

\* TIMA after n increments from tima with reload value tma: it counts up to
\* 0xFF, and every increment past 0xFF puts tma in its place
tima_after(tima, tma, n) ==
    IF tima + n < 256 THEN tima + n
    ELSE tma + ((n - (256 - tima)) % (256 - tma))

\* C40: with TAC bit 2 set, a do_cycle call increments TIMA once for every
\* full period (1024, 16, 64 or 256 ticks for TAC bits 1-0 = 0, 1, 2, 3) in
\* the ticks accumulated so far, keeps the remainder, returns true exactly
\* when one of the increments took TIMA past 0xFF, and reloads TIMA with TMA
\* at that overflow; with TAC bit 2 clear TIMA does not change and the call
\* returns false.
C40_TimerCounts ==
    [][last_op'.op = "do_cycle" =>
          LET ticks == last_op'.value
              period == <<1024, 16, 64, 256>>[(timer.tac % 4) + 1]
              accumulated == timer.internal_tima + ticks
              increments == accumulated \div period
          IN  IF BitAnd(timer.tac, 4) # 0
              THEN /\ timer'.tima = tima_after(timer.tima, timer.tma, increments)
                   /\ timer'.internal_tima = accumulated % period
                   /\ (last_op'.result = 1) <=> (timer.tima + increments >= 256)
              ELSE /\ timer'.tima = timer.tima
                   /\ last_op'.result = 0]_vars

====
